---- MODULE Spec2Model ----
(***************************************************************************)
(* Bank-statement pipeline of the Bookkeeping repository:                  *)
(*   text -> format detection -> section/line extraction -> transactions   *)
(*   transactions -> categories, merchant groups, ranked report            *)
(*                                                                         *)
(* A statement text is a sequence of lines.  A line is a record: a marker  *)
(* line (a header, a banner, a page break) is identified by its kind k and *)
(* the phrases it holds; a transaction line carries the tokens the line    *)
(* grammars read (date, description, amount).  Descriptions are sequences  *)
(* of characters, so that keyword scans, split and strip are computed.     *)
(* Amounts are integers in cents (the code parses two-decimal tokens with  *)
(* float(); rounding of binary floats is not modelled).                    *)
(***************************************************************************)
EXTENDS Integers, Sequences, FiniteSets, TLC

VARIABLES
    all_text,   \* BankStatementParser.all_text: the lines of the document
    entry,      \* "cli": extraction.extract_transactions_from_pdf, "web": app.process_statement
    pc,         \* "detect" while the parser loop runs, "done" once the entry point returned
    idx,        \* position of the loop in the parser list (1-based)
    tried,      \* parser classes whose detect_format has been called, in call order
    ran,        \* parser classes whose extract_transactions has been called
    result,     \* what the entry point returned (or the exception it let through)
    txns,       \* analysis: the transaction list handed to the analysis functions
    op,         \* analysis: which function has been applied ("start" before any)
    out         \* analysis: the value that function returned

vars == <<all_text, entry, pc, idx, tried, ran, result, txns, op, out>>

(***************************************************************************)
(* Bounds of the model                                                     *)
(***************************************************************************)
MaxLines == 4      \* body lines of a generated statement (before the final page break)
MaxTxns == 3       \* transactions in a generated analysis input
MaxCmLines == 3    \* body lines of a generated Comerica statement
MaxMdLines == 2    \* body lines of a generated Chase or Wells Fargo statement

(***************************************************************************)
(* Python str primitives on sequences of characters                        *)
(***************************************************************************)
UpperAlpha == <<"A","B","C","D","E","F","G","H","I","J","K","L","M",
                "N","O","P","Q","R","S","T","U","V","W","X","Y","Z">>
LowerAlpha == <<"a","b","c","d","e","f","g","h","i","j","k","l","m",
                "n","o","p","q","r","s","t","u","v","w","x","y","z">>
DigitChars == <<"0","1","2","3","4","5","6","7","8","9">>

IsUpper(c) == \E i \in 1..26 : UpperAlpha[i] = c
IsLower(c) == \E i \in 1..26 : LowerAlpha[i] = c
IsDigit(c) == \E i \in 1..10 : DigitChars[i] = c
IsSpace(c) == c \in {" ", "\t", "\n"}
\* the regex class \w
IsWordChar(c) == IsUpper(c) \/ IsLower(c) \/ IsDigit(c) \/ c = "_"

LowerChar(c) == IF IsUpper(c) THEN LowerAlpha[CHOOSE i \in 1..26 : UpperAlpha[i] = c] ELSE c
\* str.lower()
Lower(s) == [i \in 1..Len(s) |-> LowerChar(s[i])]

\* sub in s
Contains(s, sub) == \E i \in 0..(Len(s) - Len(sub)) : SubSeq(s, i + 1, i + Len(sub)) = sub
\* s.startswith(p)
StartsWith(s, p) == Len(s) >= Len(p) /\ SubSeq(s, 1, Len(p)) = p

\* fault variant of Strip: only the leading whitespace is removed
Strip_LeadingOnly(s) ==
    LET keep == {i \in 1..Len(s) : ~IsSpace(s[i])}
    IN  IF keep = {} THEN <<>>
        ELSE SubSeq(s, CHOOSE i \in keep : \A j \in keep : i <= j, Len(s))

\* s.strip()
Strip(s) ==
    LET keep == {i \in 1..Len(s) : ~IsSpace(s[i])}
    IN  IF keep = {} THEN <<>>
        ELSE LET lo == CHOOSE i \in keep : \A j \in keep : i <= j
                 hi == CHOOSE i \in keep : \A j \in keep : i >= j
             IN  SubSeq(s, lo, hi)

\* s.split(ch)[0]: the text before the first ch, the whole of s when it has none
BeforeFirst(s, ch) ==
    LET at == {i \in 1..Len(s) : s[i] = ch}
    IN  IF at = {} THEN s
        ELSE SubSeq(s, 1, (CHOOSE i \in at : \A j \in at : i <= j) - 1)

\* s.split(): the maximal runs of non-whitespace characters, in order
RECURSIVE SplitWs(_)
SplitWs(s) ==
    LET t == Strip(s)
    IN  IF t = <<>> THEN <<>>
        ELSE LET sp == {i \in 1..Len(t) : IsSpace(t[i])}
             IN  IF sp = {} THEN <<t>>
                 ELSE LET f == CHOOSE i \in sp : \A j \in sp : i <= j
                      IN  <<SubSeq(t, 1, f - 1)>> \o SplitWs(SubSeq(t, f + 1, Len(t)))

\* s.split(' '): the pieces between single blanks (empty pieces kept)
RECURSIVE SplitBlank(_)
SplitBlank(s) ==
    LET sp == {i \in 1..Len(s) : s[i] = " "}
    IN  IF sp = {} THEN <<s>>
        ELSE LET f == CHOOSE i \in sp : \A j \in sp : i <= j
             IN  <<SubSeq(s, 1, f - 1)>> \o SplitBlank(SubSeq(s, f + 1, Len(s)))

\* the value of a run of decimal digits (int(), and strptime's %d)
RECURSIVE DigitsVal(_)
DigitsVal(ds) ==
    IF ds = <<>> THEN 0
    ELSE 10 * DigitsVal(SubSeq(ds, 1, Len(ds) - 1))
         + ((CHOOSE i \in 1..10 : DigitChars[i] = ds[Len(ds)]) - 1)

Abs(n) == IF n < 0 THEN -n ELSE n

RECURSIVE SumSeq(_)
SumSeq(s) == IF s = <<>> THEN 0 ELSE s[1] + SumSeq(Tail(s))

\* the subsequence of s whose elements satisfy the test given as a set of indices
RECURSIVE PickIdx(_, _, _)
PickIdx(s, keep, i) ==
    IF i > Len(s) THEN <<>>
    ELSE (IF i \in keep THEN <<s[i]>> ELSE <<>>) \o PickIdx(s, keep, i + 1)

(***************************************************************************)
(* list.sort(key=...) and sorted(..., reverse=True): Python's sort is      *)
(* stable, and with reverse=True elements with equal keys keep their       *)
(* original order.  Items are records with an integer field key.           *)
(***************************************************************************)
RECURSIVE InsertAsc(_, _)
InsertAsc(sorted, x) ==
    IF sorted = <<>> THEN <<x>>
    ELSE IF sorted[Len(sorted)].key <= x.key THEN Append(sorted, x)
    ELSE Append(InsertAsc(SubSeq(sorted, 1, Len(sorted) - 1), x), sorted[Len(sorted)])

RECURSIVE SortAsc(_)
SortAsc(items) ==
    IF items = <<>> THEN <<>>
    ELSE InsertAsc(SortAsc(SubSeq(items, 1, Len(items) - 1)), items[Len(items)])

\* fault variant of InsertDesc: an element is placed before the elements with an
\* equal key, so equal keys come out in reverse order (a sort that is not stable)
RECURSIVE InsertDesc_TiesReversed(_, _)
InsertDesc_TiesReversed(sorted, x) ==
    IF sorted = <<>> THEN <<x>>
    ELSE IF sorted[Len(sorted)].key > x.key THEN Append(sorted, x)
    ELSE Append(InsertDesc_TiesReversed(SubSeq(sorted, 1, Len(sorted) - 1), x), sorted[Len(sorted)])

RECURSIVE InsertDesc(_, _)
InsertDesc(sorted, x) ==
    IF sorted = <<>> THEN <<x>>
    ELSE IF sorted[Len(sorted)].key >= x.key THEN Append(sorted, x)
    ELSE Append(InsertDesc(SubSeq(sorted, 1, Len(sorted) - 1), x), sorted[Len(sorted)])

RECURSIVE SortDesc(_)
SortDesc(items) ==
    IF items = <<>> THEN <<>>
    ELSE InsertDesc(SortDesc(SubSeq(items, 1, Len(items) - 1)), items[Len(items)])

(***************************************************************************)
(* Lines of a statement text                                               *)
(*                                                                         *)
(* Marker lines, by kind k, with the text they stand for:                  *)
(*   SS        "STATEMENT SUMMARY"                                         *)
(*   DepHdr    "DEPOSITS/OTHER CREDITS" / "Date Description Amount"        *)
(*   DebHdr    "OTHER DEBITS" / "Date Description Amount"                  *)
(*   Checks    "CHECKS"                                                    *)
(*   SvcSum    "SERVICE CHARGE SUMMARY"                                    *)
(*   PB        "--- PAGE BREAK ---"                                        *)
(*   Chase     "JPMorgan Chase Bank"        Activity  "ACCOUNT ACTIVITY"   *)
(*   DailyBal  "DAILY ENDING BALANCE"                                      *)
(*   WF        "Wells Fargo Bank"           History   "TRANSACTION HISTORY"*)
(*   Comerica  "Comerica Bank"              BBC  "Basic Business Checking" *)
(*   Junk      "Page 1 of 3"                                               *)
(* Transaction lines:                                                      *)
(*   mdy  "MM/DD/YYYY <desc> [-]<amount>"   (Prosperity)                   *)
(*   md   "MM/DD <desc> [-]<amount>"        (Chase, Wells Fargo)           *)
(***************************************************************************)
Marker(kind) == [k |-> kind]
PB == Marker("PB")

MdyLine(m, d, y, description, isNeg, c) ==
    [k |-> "mdy", mm |-> m, dd |-> d, yyyy |-> y, desc |-> description, neg |-> isNeg, cents |-> c]
MdLine(m, d, description, isNeg, c) ==
    [k |-> "md", mm |-> m, dd |-> d, desc |-> description, neg |-> isNeg, cents |-> c]

cCHECKS == <<"C","H","E","C","K","S">>
cOTHER_DEBITS == <<"O","T","H","E","R"," ","D","E","B","I","T","S">>

\* the phrases the text of a line holds, compared case-sensitively ("phrase" in text)
Phrases(line) ==
    CASE line.k = "SS" -> {"STATEMENT SUMMARY"}
      [] line.k = "DepHdr" -> {"DEPOSITS/OTHER CREDITS"}
      [] line.k = "DebHdr" -> {"OTHER DEBITS"}
      [] line.k = "Checks" -> {"CHECKS"}
      [] line.k = "SvcSum" -> {"SERVICE CHARGE SUMMARY"}
      [] line.k = "PB" -> {"--- PAGE BREAK ---"}
      [] line.k = "Activity" -> {"ACCOUNT ACTIVITY"}
      [] line.k = "DailyBal" -> {"DAILY ENDING BALANCE"}
      [] line.k = "History" -> {"TRANSACTION HISTORY"}
      [] line.k \in {"mdy", "md"} ->
            (IF Contains(line.desc, cCHECKS) THEN {"CHECKS"} ELSE {})
            \cup (IF Contains(line.desc, cOTHER_DEBITS) THEN {"OTHER DEBITS"} ELSE {})
      [] OTHER -> {}

\* the phrases text.upper() holds
UpperPhrases(line) ==
    Phrases(line) \cup
    (CASE line.k = "Chase" -> {"CHASE"}
       [] line.k = "WF" -> {"WELLS FARGO"}
       [] line.k = "Comerica" -> {"COMERICA"}
       [] OTHER -> {})

\* the phrases text.replace(" ", "") holds
NoSpacePhrases(line) ==
    CASE line.k = "BBC" -> {"BasicBusinessChecking"}
      [] OTHER -> {}

TextHas(text, phrase) == \E i \in 1..Len(text) : phrase \in Phrases(text[i])
TextUpperHas(text, phrase) == \E i \in 1..Len(text) : phrase \in UpperPhrases(text[i])
TextNoSpaceHas(text, phrase) == \E i \in 1..Len(text) : phrase \in NoSpacePhrases(text[i])

\* BankStatementParser.__init__: the page texts, each followed by a page-break line.
\* A generated body holds the page breaks between its pages; the last page's follows.
BankStatementParser(body) == Append(body, PB)

(***************************************************************************)
(* datetime.strptime                                                       *)
(***************************************************************************)
IsLeap(y) == (y % 4 = 0 /\ y % 100 # 0) \/ y % 400 = 0
DaysIn(m, y) ==
    IF m = 2 THEN (IF IsLeap(y) THEN 29 ELSE 28)
    ELSE IF m \in {4, 6, 9, 11} THEN 30 ELSE 31
ValidDate(m, d, y) == m \in 1..12 /\ d >= 1 /\ d <= DaysIn(m, y)
\* the order of datetime values
DateKey(m, d, y) == y * 10000 + m * 100 + d

(***************************************************************************)
(* Prosperity: extraction.ProsperityBankParser and parsers.ProsperityParser *)
(***************************************************************************)
ProsperityBankParser_detect_format(text) ==
    TextHas(text, "STATEMENT SUMMARY") /\ TextHas(text, "DEPOSITS/OTHER CREDITS")

ProsperityParser_detect_format(text) ==
    TextHas(text, "STATEMENT SUMMARY") /\ TextHas(text, "DEPOSITS/OTHER CREDITS")

DepositStops == {"OTHER DEBITS", "CHECKS", "SERVICE CHARGE SUMMARY", "--- PAGE BREAK ---"}
DebitStops == {"DEPOSITS/OTHER CREDITS", "CHECKS", "SERVICE CHARGE SUMMARY", "--- PAGE BREAK ---"}

\* (.*?)(?:stop|...|$): the first line at or after i that holds a stop phrase;
\* Len(text) + 1 when there is none (the $ alternative)
RECURSIVE RegionEnd(_, _, _)
RegionEnd(text, i, stops) ==
    IF i > Len(text) THEN i
    ELSE IF Phrases(text[i]) \cap stops # {} THEN i
    ELSE RegionEnd(text, i + 1, stops)

\* pattern.finditer(all_text): every header occurrence that lies outside the
\* previous match starts a region, which runs to the nearest stop phrase.  The
\* part of a line before a stop phrase inside it never matches the line
\* grammar, so a region is the whole lines strictly between header and stop.
RECURSIVE FindSections(_, _, _, _)
FindSections(text, i, hdr, stops) ==
    IF i > Len(text) THEN <<>>
    ELSE IF text[i].k = hdr
         THEN LET j == RegionEnd(text, i + 1, stops)
              IN  <<SubSeq(text, i + 1, j - 1)>> \o FindSections(text, j + 1, hdr, stops)
         ELSE FindSections(text, i + 1, hdr, stops)

\* "if section:" keeps the non-empty regions, tagged with the section type
RECURSIVE TagSections(_, _)
TagSections(regions, tag) ==
    IF regions = <<>> THEN <<>>
    ELSE (IF regions[1] # <<>> THEN <<[type |-> tag, lines |-> regions[1]]>> ELSE <<>>)
         \o TagSections(Tail(regions), tag)

ProsperitySections(text) ==
    TagSections(FindSections(text, 1, "DepHdr", DepositStops), "deposit")
    \o TagSections(FindSections(text, 1, "DebHdr", DebitStops), "debit")

\* re.match of the Prosperity line pattern: MM/DD/YYYY, a non-empty description,
\* an amount token at the end of the line
ProsperityLineMatches(line) == line.k = "mdy" /\ Strip(line.desc) # <<>>

\* float(amount_str) of the matched token, in cents
LiteralAmount(line) == IF line.neg THEN -line.cents ELSE line.cents

\* fault variant of ProsperitySignedAmount: the printed sign is kept
ProsperitySignedAmount_Literal(section_type, amount) == amount

\* the sign rule of the Prosperity grammar
ProsperitySignedAmount(section_type, amount) ==
    IF section_type = "debit" THEN -Abs(amount) ELSE Abs(amount)

ProsperityTxn(section_type, line) ==
    [date |-> <<line.mm, line.dd, line.yyyy>>,
     amount |-> ProsperitySignedAmount(section_type, LiteralAmount(line)),
     description |-> Strip(line.desc),
     raw_line |-> line]

RECURSIVE ProsperityLines(_, _)
ProsperityLines(section_type, lines) ==
    IF lines = <<>> THEN <<>>
    ELSE (IF ProsperityLineMatches(lines[1])
          THEN <<ProsperityTxn(section_type, lines[1])>> ELSE <<>>)
         \o ProsperityLines(section_type, Tail(lines))

RECURSIVE ProsperityAll(_)
ProsperityAll(sections) ==
    IF sections = <<>> THEN <<>>
    ELSE ProsperityLines(sections[1].type, sections[1].lines) \o ProsperityAll(Tail(sections))

\* extraction.ProsperityBankParser.extract_transactions: deposit sections first,
\* then debit sections, in the order found; no sort
ProsperityBankParser_extract_transactions(text) ==
    [raised |-> FALSE, txns |-> ProsperityAll(ProsperitySections(text))]

\* transactions.sort(key=lambda x: datetime.strptime(x['date'], '%m/%d/%Y'))
MdyValid(t) == ValidDate(t.date[1], t.date[2], t.date[3])
MdyKeyed(list) ==
    [i \in 1..Len(list) |->
        [key |-> DateKey(list[i].date[1], list[i].date[2], list[i].date[3]), val |-> list[i]]]
Vals(items) == [i \in 1..Len(items) |-> items[i].val]

\* parsers.ProsperityParser.extract_transactions: the same, then sorted by date;
\* strptime raises ValueError on a token that is no calendar date
ProsperityParser_extract_transactions(text) ==
    LET found == ProsperityAll(ProsperitySections(text))
    IN  IF \E i \in 1..Len(found) : ~MdyValid(found[i])
        THEN [raised |-> TRUE, txns |-> <<>>]
        ELSE [raised |-> FALSE, txns |-> Vals(SortAsc(MdyKeyed(found)))]

(***************************************************************************)
(* Chase and Wells Fargo (extraction.py)                                   *)
(***************************************************************************)
ChaseParser_detect_format(text) ==
    TextUpperHas(text, "CHASE") /\ TextUpperHas(text, "ACCOUNT ACTIVITY")

WellsFargoParser_detect_format(text) ==
    TextUpperHas(text, "WELLS FARGO") /\ TextUpperHas(text, "TRANSACTION HISTORY")

\* the year both parsers attach to every MM/DD token
ChaseYear == 2024
WellsFargoYear == 2024

\* pattern.search(all_text).group(0): from the first header occurrence to the
\* nearest stop phrase (or the end of the text); <<>> when the header is absent
FirstSection(text, hdrPhrase, stops) ==
    LET at == {i \in 1..Len(text) : hdrPhrase \in Phrases(text[i])}
    IN  IF at = {} THEN <<>>
        ELSE LET i == CHOOSE a \in at : \A b \in at : a <= b
             IN  SubSeq(text, i, RegionEnd(text, i + 1, stops) - 1)

\* re.match of the MM/DD line pattern: a date, a non-empty description, an amount
MdLineMatches(line) == line.k = "md" /\ Strip(line.desc) # <<>>

MdTxn(line, year) ==
    [date |-> <<line.mm, line.dd, year>>,
     amount |-> LiteralAmount(line),
     description |-> Strip(line.desc),
     raw_line |-> line]

RECURSIVE MdLines(_, _)
MdLines(lines, year) ==
    IF lines = <<>> THEN <<>>
    ELSE (IF MdLineMatches(lines[1]) THEN <<MdTxn(lines[1], year)>> ELSE <<>>)
         \o MdLines(Tail(lines), year)

ChaseParser_extract_transactions(text) ==
    [raised |-> FALSE,
     txns |-> MdLines(FirstSection(text, "ACCOUNT ACTIVITY",
                                   {"DAILY ENDING BALANCE", "ANNUAL PERCENTAGE YIELD"}),
                      ChaseYear)]

WellsFargoParser_extract_transactions(text) ==
    [raised |-> FALSE,
     txns |-> MdLines(FirstSection(text, "TRANSACTION HISTORY",
                                   {"MONTHLY SERVICE FEE SUMMARY", "IMPORTANT ACCOUNT INFORMATION"}),
                      WellsFargoYear)]

(***************************************************************************)
(* Comerica (parsers.comerica_parser)                                      *)
(*                                                                         *)
(* The Comerica patterns are applied with finditer to a whole section, and *)
(* their \s+ also matches a line break, so they are modelled on the stream *)
(* of words of the section: a word is a maximal run of non-blank           *)
(* characters, words are separated by one blank or one line break.         *)
(* Marker lines of a Comerica statement, with their text:                  *)
(*   HdrPaper "Paper depositsthisstatementperiod"                          *)
(*   HdrXfer  "Transferfrom otheraccountsthisstatementperiod"              *)
(*   HdrWd    "Electronicwithdrawalsthisstatementperiod"                   *)
(*   HdrFees  "Feesandservice chargesthisstatementperiod"                  *)
(*   Lowest   "Lowest daily balance"                                       *)
(*   XferSp   "Transfer from other accounts"                               *)
(*   WdSp     "Electronic withdrawals"       FeesSp  "Fees and charges"    *)
(*   Period   "April 1, <year> to April 30, <year>"  (field year)          *)
(* A transaction line is [k |-> "cm", words |-> <<word, ...>>].            *)
(***************************************************************************)
CmLine(ws) == [k |-> "cm", words |-> ws]
PeriodLine(y) == [k |-> "Period", year |-> y]

ComericaPhrases(line) ==
    CASE line.k = "HdrPaper" -> {"Paper depositsthisstatementperiod"}
      [] line.k = "HdrXfer" -> {"Transferfrom otheraccountsthisstatementperiod"}
      [] line.k = "HdrWd" -> {"Electronicwithdrawalsthisstatementperiod"}
      [] line.k = "HdrFees" -> {"Feesandservice chargesthisstatementperiod"}
      [] line.k = "Lowest" -> {"Lowest daily"}
      [] line.k = "XferSp" -> {"Transfer from"}
      [] line.k = "WdSp" -> {"Electronic withdrawals"}
      [] line.k = "FeesSp" -> {"Fees and"}
      [] OTHER -> {}

\* the words of a line, as the word-level patterns see them
LineWords(line) ==
    CASE line.k = "cm" -> line.words
      [] line.k = "HdrPaper" -> <<<<"P","a","p","e","r">>, <<"d","e","p","o","s","i","t","s","t","h","i","s","s","t","a","t","e","m","e","n","t","p","e","r","i","o","d">>>>
      [] line.k = "HdrXfer" -> <<<<"T","r","a","n","s","f","e","r","f","r","o","m">>, <<"o","t","h","e","r","a","c","c","o","u","n","t","s","t","h","i","s","s","t","a","t","e","m","e","n","t","p","e","r","i","o","d">>>>
      [] line.k = "HdrWd" -> <<<<"E","l","e","c","t","r","o","n","i","c","w","i","t","h","d","r","a","w","a","l","s","t","h","i","s","s","t","a","t","e","m","e","n","t","p","e","r","i","o","d">>>>
      [] line.k = "HdrFees" -> <<<<"F","e","e","s","a","n","d","s","e","r","v","i","c","e">>, <<"c","h","a","r","g","e","s","t","h","i","s","s","t","a","t","e","m","e","n","t","p","e","r","i","o","d">>>>
      [] line.k = "Lowest" -> <<<<"L","o","w","e","s","t">>, <<"d","a","i","l","y">>, <<"b","a","l","a","n","c","e">>>>
      [] line.k = "XferSp" -> <<<<"T","r","a","n","s","f","e","r">>, <<"f","r","o","m">>, <<"o","t","h","e","r">>, <<"a","c","c","o","u","n","t","s">>>>
      [] line.k = "WdSp" -> <<<<"E","l","e","c","t","r","o","n","i","c">>, <<"w","i","t","h","d","r","a","w","a","l","s">>>>
      [] line.k = "FeesSp" -> <<<<"F","e","e","s">>, <<"a","n","d">>, <<"c","h","a","r","g","e","s">>>>
      [] line.k = "PB" -> <<<<"-","-","-">>, <<"P","A","G","E">>, <<"B","R","E","A","K">>, <<"-","-","-">>>>
      [] line.k = "Comerica" -> <<<<"C","o","m","e","r","i","c","a">>, <<"B","a","n","k">>>>
      [] line.k = "BBC" -> <<<<"B","a","s","i","c">>, <<"B","u","s","i","n","e","s","s">>, <<"C","h","e","c","k","i","n","g">>>>
      [] OTHER -> <<>>

ComericaParser_detect_format(text) ==
    TextNoSpaceHas(text, "BasicBusinessChecking") /\ TextUpperHas(text, "COMERICA")

\* fault variant of StatementYear: the clock's year, also when a period header is printed
StatementYear_AlwaysClock(text, now) == now

\* re.search of the statement-period pattern: the year of the first period
\* header, datetime.now().year (the argument now) when there is none
StatementYear(text, now) ==
    LET at == {i \in 1..Len(text) : text[i].k = "Period"}
    IN  IF at = {} THEN now
        ELSE text[CHOOSE a \in at : \A b \in at : a <= b].year

\* re.search(header.*?(?=stop|$), all_text, re.DOTALL).group(0), as lines
ComericaSection(text, hdrPhrase, stops) ==
    LET at == {i \in 1..Len(text) : hdrPhrase \in ComericaPhrases(text[i])}
        RECURSIVE End(_)
        End(i) == IF i > Len(text) THEN i
                  ELSE IF ComericaPhrases(text[i]) \cap stops # {} THEN i
                  ELSE End(i + 1)
    IN  IF at = {} THEN <<>>
        ELSE LET i == CHOOSE a \in at : \A b \in at : a <= b
             IN  SubSeq(text, i, End(i + 1) - 1)

\* the words of a section in reading order, each with the number of its line
RECURSIVE WordStream(_, _)
WordStream(lines, n) ==
    IF lines = <<>> THEN <<>>
    ELSE [i \in 1..Len(LineWords(lines[1])) |-> [w |-> LineWords(lines[1])[i], ln |-> n]]
         \o WordStream(Tail(lines), n + 1)

\* [A-Z][a-z]{2}(\d{1,2}) followed by \s: the word ends with a month token and
\* a day of n digits
DateDigits(w) ==
    {n \in {1, 2} :
        /\ Len(w) >= 3 + n
        /\ \A i \in (Len(w) - n + 1)..Len(w) : IsDigit(w[i])
        /\ IsLower(w[Len(w) - n]) /\ IsLower(w[Len(w) - n - 1])
        /\ IsUpper(w[Len(w) - n - 2])}
IsDateWord(w) == DateDigits(w) # {}
DateMonth(w) == LET n == CHOOSE x \in DateDigits(w) : TRUE
                IN  SubSeq(w, Len(w) - n - 2, Len(w) - n)
DateDay(w) == LET n == CHOOSE x \in DateDigits(w) : TRUE
              IN  SubSeq(w, Len(w) - n + 1, Len(w))

\* (-?[\d,]+\.\d{2}) between two \s+: the whole word is an amount token;
\* the sign is accepted only by the withdrawal and fee patterns
IsAmountWord(w, signOk) ==
    LET body == IF w # <<>> /\ w[1] = "-" THEN Tail(w) ELSE w
    IN  /\ (w # <<>> /\ w[1] = "-") => signOk
        /\ Len(body) >= 4
        /\ body[Len(body) - 2] = "." /\ IsDigit(body[Len(body) - 1]) /\ IsDigit(body[Len(body)])
        /\ \A i \in 1..(Len(body) - 3) : IsDigit(body[i]) \/ body[i] = ","

\* float(amount_str.replace(',', '')), in cents
AmountCents(w) ==
    LET body == IF w[1] = "-" THEN Tail(w) ELSE w
        digits == PickIdx(body, {i \in 1..Len(body) : IsDigit(body[i])}, 1)
    IN  IF w[1] = "-" THEN -DigitsVal(digits) ELSE DigitsVal(digits)

\* the longest prefix of w in the class (\w+ or \d+), <<>> when w does not start in it
WordPrefix(w) ==
    LET bad == {i \in 1..Len(w) : ~IsWordChar(w[i])}
    IN  IF bad = {} THEN w ELSE SubSeq(w, 1, (CHOOSE i \in bad : \A j \in bad : i <= j) - 1)
DigitPrefix(w) ==
    LET bad == {i \in 1..Len(w) : ~IsDigit(w[i])}
    IN  IF bad = {} THEN w ELSE SubSeq(w, 1, (CHOOSE i \in bad : \A j \in bad : i <= j) - 1)

\* words a..b of the stream joined by single blanks
RECURSIVE JoinWords(_, _, _)
JoinWords(S, a, b) ==
    IF a > b THEN <<>>
    ELSE IF a = b THEN S[a].w
    ELSE S[a].w \o <<" ">> \o JoinWords(S, a + 1, b)

(***************************************************************************)
(* One match of a Comerica pattern starting at word p of the stream S.     *)
(* A pattern is [sign, activity, mid, last]:                               *)
(*   sign      the amount may carry a leading "-"                          *)
(*   activity  the pattern has the lazy group (.*?) after the amount       *)
(*   mid       number of (\w+) groups that must be followed by \s+         *)
(*   last      "d" when the final group is (\d+), "w" when it is (\w+)     *)
(* The lazy group takes the fewest words (at least one, all on one line,   *)
(* as . does not match a line break) for which the rest matches.           *)
(***************************************************************************)
DepositPattern == [sign |-> FALSE, activity |-> FALSE, mid |-> 0, last |-> "d"]
TransferPattern == [sign |-> FALSE, activity |-> TRUE, mid |-> 1, last |-> "w"]
WithdrawalPattern == [sign |-> TRUE, activity |-> TRUE, mid |-> 0, last |-> "w"]
FeePattern == [sign |-> TRUE, activity |-> TRUE, mid |-> 0, last |-> "d"]

LastPrefix(pat, w) == IF pat.last = "d" THEN DigitPrefix(w) ELSE WordPrefix(w)

\* the groups after the activity match at word q: mid whole \w+ words, then the last group
TailMatches(S, q, pat) ==
    /\ q + pat.mid <= Len(S)
    /\ \A j \in q..(q + pat.mid - 1) : S[j].w # <<>> /\ WordPrefix(S[j].w) = S[j].w
    /\ LastPrefix(pat, S[q + pat.mid].w) # <<>>

\* the numbers k of activity words for which the pattern matches at p
ActivityLengths(S, p, pat) ==
    {k \in 1..(Len(S) - p - 1) :
        /\ S[p + 1 + k].ln = S[p + 2].ln
        /\ TailMatches(S, p + 2 + k, pat)}

MatchAt(S, p, pat) ==
    IF ~(p + 2 <= Len(S) /\ IsDateWord(S[p].w) /\ IsAmountWord(S[p + 1].w, pat.sign))
    THEN [ok |-> FALSE]
    ELSE IF ~pat.activity
    THEN IF TailMatches(S, p + 2, pat)
         THEN [ok |-> TRUE, month |-> DateMonth(S[p].w), day |-> DateDay(S[p].w),
               amount |-> AmountCents(S[p + 1].w), activity |-> <<>>, mids |-> <<>>,
               ref |-> LastPrefix(pat, S[p + 2].w),
               next |-> IF LastPrefix(pat, S[p + 2].w) = S[p + 2].w THEN p + 3 ELSE p + 2]
         ELSE [ok |-> FALSE]
    ELSE LET ks == ActivityLengths(S, p, pat)
         IN  IF ks = {} THEN [ok |-> FALSE]
             ELSE LET k == CHOOSE a \in ks : \A b \in ks : a <= b
                      q == p + 2 + k + pat.mid
                  IN  [ok |-> TRUE, month |-> DateMonth(S[p].w), day |-> DateDay(S[p].w),
                       amount |-> AmountCents(S[p + 1].w),
                       activity |-> JoinWords(S, p + 2, p + 1 + k),
                       mids |-> [j \in 1..pat.mid |-> S[p + 1 + k + j].w],
                       ref |-> LastPrefix(pat, S[q].w),
                       next |-> IF LastPrefix(pat, S[q].w) = S[q].w THEN q + 1 ELSE q]

\* re.finditer: the matches from left to right, each starting after the previous one
RECURSIVE FindAll(_, _, _)
FindAll(S, p, pat) ==
    IF p > Len(S) THEN <<>>
    ELSE LET m == MatchAt(S, p, pat)
         IN  IF m.ok THEN <<m>> \o FindAll(S, m.next, pat)
             ELSE FindAll(S, p + 1, pat)

\* the string literals of the Comerica grammar
ComericaLiteral ==
    [Fee_ |-> <<"F","e","e","-">>,
     ServiceCharge |-> <<"S","e","r","v","i","c","e","C","h","a","r","g","e">>,
     Wire |-> <<"W","i","r","e">>,
     Zelle |-> <<"Z","e","l","l","e">>,
     WfPayment |-> <<"W","f"," ","P","a","y","m","e","n","t">>,
     Wf |-> <<"W","f">>,
     Toyota |-> <<"T","o","y","o","t","a">>,
     Ally |-> <<"A","l","l","y">>,
     GMFinancial |-> <<"G","M","F","i","n","a","n","c","i","a","l">>,
     FordMotor |-> <<"F","o","r","d","M","o","t","o","r">>,
     TdAutoFinance |-> <<"T","d","A","u","t","o","F","i","n","a","n","c","e">>,
     Bridgecrest |-> <<"B","r","i","d","g","e","c","r","e","s","t">>,
     FeeOverdraft |-> <<"F","e","e","-","O","v","e","r","d","r","a","f","t">>,
     FeeReturnedItem |-> <<"F","e","e","-","R","e","t","u","r","n","e","d","I","t","e","m">>,
     PaperDepositRef |-> <<"P","a","p","e","r"," ","D","e","p","o","s","i","t"," ","R","e","f",":">>,
     Ref |-> <<" ","R","e","f",":">>]
MonthAbbr == <<<<"j","a","n">>, <<"f","e","b">>, <<"m","a","r">>, <<"a","p","r">>, <<"m","a","y">>, <<"j","u","n">>, <<"j","u","l">>, <<"a","u","g">>, <<"s","e","p">>, <<"o","c","t">>, <<"n","o","v">>, <<"d","e","c">>>>


\* datetime.strptime(date, '%b %d, %Y'): the month number of an abbreviation
\* (matched without regard to case), 0 when it is none
MonthNum(mon) ==
    LET at == {i \in 1..12 : MonthAbbr[i] = Lower(mon)}
    IN  IF at = {} THEN 0 ELSE CHOOSE i \in at : TRUE

CmDate(m, year) == [mon |-> m.month, day |-> m.day, year |-> year]
CmValid(t) == ValidDate(MonthNum(t.date.mon), DigitsVal(t.date.day), t.date.year)
CmKeyed(list) ==
    [i \in 1..Len(list) |->
        [key |-> DateKey(MonthNum(list[i].date.mon), DigitsVal(list[i].date.day), list[i].date.year),
         val |-> list[i]]]

\* fault variant of ComericaDeposit: the reference number is left out of the description
ComericaDeposit_NoRef(m, year) ==
    [date |-> CmDate(m, year), amount |-> m.amount,
     description |-> ComericaLiteral.PaperDepositRef, type |-> "deposit"]

ComericaDeposit(m, year) ==
    [date |-> CmDate(m, year), amount |-> m.amount,
     description |-> ComericaLiteral.PaperDepositRef \o m.ref, type |-> "deposit"]

ComericaTransfer(m, year) ==
    [date |-> CmDate(m, year), amount |-> m.amount,
     description |-> m.activity \o <<" ">> \o m.mids[1] \o ComericaLiteral.Ref \o m.ref, type |-> "transfer"]

\* the type tag of an electronic withdrawal, from its activity text
WithdrawalType(activity) ==
    IF Contains(activity, ComericaLiteral.Wire) THEN "wire_transfer"
    ELSE IF Contains(activity, ComericaLiteral.Zelle) THEN "zelle"
    ELSE IF Contains(activity, ComericaLiteral.WfPayment) \/ Contains(activity, ComericaLiteral.Wf) THEN "wells_fargo_payment"
    ELSE IF Contains(activity, ComericaLiteral.Toyota) THEN "toyota_payment"
    ELSE IF Contains(activity, ComericaLiteral.Ally) THEN "ally_payment"
    ELSE IF Contains(activity, ComericaLiteral.GMFinancial) THEN "gm_financial_payment"
    ELSE IF Contains(activity, ComericaLiteral.FordMotor) THEN "ford_payment"
    ELSE IF Contains(activity, ComericaLiteral.TdAutoFinance) THEN "td_auto_payment"
    ELSE IF Contains(activity, ComericaLiteral.Bridgecrest) THEN "bridgecrest_payment"
    ELSE "other_withdrawal"

\* the amount of a withdrawal or fee record: float() of the token as printed
ComericaDebitAmount(m) == m.amount

ComericaWithdrawal(m, year) ==
    [date |-> CmDate(m, year), amount |-> ComericaDebitAmount(m),
     description |-> m.activity \o ComericaLiteral.Ref \o m.ref, type |-> WithdrawalType(m.activity)]

\* "if 'Fee-' in activity or 'ServiceCharge' in activity: continue"
IsFeeActivity(activity) == Contains(activity, ComericaLiteral.Fee_) \/ Contains(activity, ComericaLiteral.ServiceCharge)

FeeType(activity) ==
    IF Contains(activity, ComericaLiteral.FeeOverdraft) THEN "overdraft_fee"
    ELSE IF Contains(activity, ComericaLiteral.FeeReturnedItem) THEN "returned_item_fee"
    ELSE IF Contains(activity, ComericaLiteral.ServiceCharge) THEN "service_charge"
    ELSE "other_fee"

ComericaFee(m, year) ==
    [date |-> CmDate(m, year), amount |-> ComericaDebitAmount(m),
     description |-> m.activity \o ComericaLiteral.Ref \o m.ref, type |-> FeeType(m.activity)]

ComericaDeposits(text, year) ==
    LET ms == FindAll(WordStream(ComericaSection(text, "Paper depositsthisstatementperiod",
                                 {"Transfer from", "Electronic withdrawals"}), 1), 1, DepositPattern)
    IN  [i \in 1..Len(ms) |-> ComericaDeposit(ms[i], year)]

ComericaTransfers(text, year) ==
    LET ms == FindAll(WordStream(ComericaSection(text, "Transferfrom otheraccountsthisstatementperiod",
                                 {"Electronicwithdrawalsthisstatementperiod"}), 1), 1, TransferPattern)
    IN  [i \in 1..Len(ms) |-> ComericaTransfer(ms[i], year)]

ComericaWithdrawals(text, year) ==
    LET ms == FindAll(WordStream(ComericaSection(text, "Electronicwithdrawalsthisstatementperiod",
                                 {"Fees and"}), 1), 1, WithdrawalPattern)
        kept == PickIdx(ms, {i \in 1..Len(ms) : ~IsFeeActivity(ms[i].activity)}, 1)
    IN  [i \in 1..Len(kept) |-> ComericaWithdrawal(kept[i], year)]

ComericaFees(text, year) ==
    LET ms == FindAll(WordStream(ComericaSection(text, "Feesandservice chargesthisstatementperiod",
                                 {"Lowest daily"}), 1), 1, FeePattern)
    IN  [i \in 1..Len(ms) |-> ComericaFee(ms[i], year)]

\* the (date, amount, description) triple
DedupKey(t) == <<t.date, t.amount, t.description>>

\* fault variant of Dedup: the last record of every triple is kept
Dedup_KeepLast(list) ==
    PickIdx(list, {i \in 1..Len(list) :
                      \A j \in (i + 1)..Len(list) : DedupKey(list[j]) # DedupKey(list[i])}, 1)

\* "if key not in seen": the first record of every triple, in list order
Dedup(list) ==
    PickIdx(list, {i \in 1..Len(list) : \A j \in 1..(i - 1) : DedupKey(list[j]) # DedupKey(list[i])}, 1)

\* parsers.ComericaParser.extract_transactions; now is datetime.now().year
ComericaFound(text, year) ==
    ComericaDeposits(text, year) \o ComericaTransfers(text, year)
    \o ComericaWithdrawals(text, year) \o ComericaFees(text, year)

\* the strptime sort key raises on a date that is not a calendar date
ComericaSorted(unique) ==
    IF \E i \in 1..Len(unique) : ~CmValid(unique[i])
    THEN [raised |-> TRUE, txns |-> <<>>]
    ELSE [raised |-> FALSE, txns |-> Vals(SortAsc(CmKeyed(unique)))]

ComericaParser_extract_transactions(text, now) ==
    ComericaSorted(Dedup(ComericaFound(text, StatementYear(text, now))))

(***************************************************************************)
(* The two entry points that run the detector                              *)
(***************************************************************************)
\* fault variant of parsers: Chase is declared before Prosperity
parsers_ChaseFirst == <<"ChaseParser", "ProsperityBankParser", "WellsFargoParser">>

\* extraction.extract_transactions_from_pdf: the list named parsers
parsers == <<"ProsperityBankParser", "ChaseParser", "WellsFargoParser">>
\* parsers/__init__.py
AVAILABLE_PARSERS == <<"ComericaParser", "ProsperityParser">>

detect_format(parser_class, text) ==
    CASE parser_class = "ProsperityBankParser" -> ProsperityBankParser_detect_format(text)
      [] parser_class = "ChaseParser" -> ChaseParser_detect_format(text)
      [] parser_class = "WellsFargoParser" -> WellsFargoParser_detect_format(text)
      [] parser_class = "ComericaParser" -> ComericaParser_detect_format(text)
      [] parser_class = "ProsperityParser" -> ProsperityParser_detect_format(text)

extract_transactions(parser_class, text, now) ==
    CASE parser_class = "ProsperityBankParser" -> ProsperityBankParser_extract_transactions(text)
      [] parser_class = "ChaseParser" -> ChaseParser_extract_transactions(text)
      [] parser_class = "WellsFargoParser" -> WellsFargoParser_extract_transactions(text)
      [] parser_class = "ComericaParser" -> ComericaParser_extract_transactions(text, now)
      [] parser_class = "ProsperityParser" -> ProsperityParser_extract_transactions(text)

Amounts(list) == [i \in 1..Len(list) |-> list[i].amount]

\* what extract_transactions_from_pdf returns for a detected format
CliReturn(r) ==
    IF r.raised THEN [kind |-> "raise"] ELSE [kind |-> "list", transactions |-> r.txns]

\* fault variant of CliUnknownReturn: the function falls off its end
CliUnknownReturn_None == [kind |-> "None"]

\* what extract_transactions_from_pdf returns when no parser detects the format
CliUnknownReturn == [kind |-> "list", transactions |-> <<>>]

\* the dict process_statement returns for a detected format (its summary part)
WebReturn(parser_class, r) ==
    IF r.raised THEN [kind |-> "raise"]
    ELSE [kind |-> "dict", format |-> parser_class, transactions |-> r.txns,
          total_transactions |-> Len(r.txns),
          total_amount |-> SumSeq(Amounts(r.txns)),
          total_debits |-> Cardinality({i \in 1..Len(r.txns) : r.txns[i].amount < 0}),
          total_credits |-> Cardinality({i \in 1..Len(r.txns) : r.txns[i].amount > 0})]

\* what process_statement returns when no parser detects the format
WebUnknownReturn == [kind |-> "None"]

(***************************************************************************)
(* Analysis of a transaction list                                          *)
(*                                                                         *)
(* A transaction is a record [description, amount, type]: description and  *)
(* type are sequences of characters, type <<>> stands for a dict without   *)
(* the key 'type' (txn.get('type', '') gives '' for both).  The lists the  *)
(* functions build hold references to the records of the input list; a     *)
(* reference is the position of the record in that list.                   *)
(***************************************************************************)
\* the type tags, as the strings the parsers and the analysis spell them
Tag ==
    [deposit |-> <<"d","e","p","o","s","i","t">>,
     transfer |-> <<"t","r","a","n","s","f","e","r">>,
     wire_transfer |-> <<"w","i","r","e","_","t","r","a","n","s","f","e","r">>,
     zelle |-> <<"z","e","l","l","e">>,
     overdraft_fee |-> <<"o","v","e","r","d","r","a","f","t","_","f","e","e">>,
     returned_item_fee |-> <<"r","e","t","u","r","n","e","d","_","i","t","e","m","_","f","e","e">>,
     service_charge |-> <<"s","e","r","v","i","c","e","_","c","h","a","r","g","e">>,
     other_fee |-> <<"o","t","h","e","r","_","f","e","e">>,
     wells_fargo_payment |-> <<"w","e","l","l","s","_","f","a","r","g","o","_","p","a","y","m","e","n","t">>,
     toyota_payment |-> <<"t","o","y","o","t","a","_","p","a","y","m","e","n","t">>,
     ally_payment |-> <<"a","l","l","y","_","p","a","y","m","e","n","t">>,
     gm_financial_payment |-> <<"g","m","_","f","i","n","a","n","c","i","a","l","_","p","a","y","m","e","n","t">>,
     ford_payment |-> <<"f","o","r","d","_","p","a","y","m","e","n","t">>,
     td_auto_payment |-> <<"t","d","_","a","u","t","o","_","p","a","y","m","e","n","t">>,
     bridgecrest_payment |-> <<"b","r","i","d","g","e","c","r","e","s","t","_","p","a","y","m","e","n","t">>,
     other_withdrawal |-> <<"o","t","h","e","r","_","w","i","t","h","d","r","a","w","a","l">>]

FeeTags == {Tag.overdraft_fee, Tag.returned_item_fee, Tag.service_charge, Tag.other_fee}
PaymentTags == {Tag.wells_fargo_payment, Tag.toyota_payment, Tag.ally_payment, Tag.gm_financial_payment,
                Tag.ford_payment, Tag.td_auto_payment, Tag.bridgecrest_payment}

\* the keys of the dict categories, in insertion order
CategoryNames ==
    <<"deposits", "paper_deposits", "transfers", "checks", "atm_debit",
      "electronic_withdrawals", "fees_services">>

\* the fallback on the sign of the amount; "none" when no branch appends
AmountCategory(amount) ==
    IF amount > 0 THEN "deposits"
    ELSE IF amount < 0 THEN "electronic_withdrawals"
    ELSE "none"

\* fault variant of TypeCategory: the branch for zelle is missing
TypeCategory_ZelleUnmapped(txn_type, amount) ==
    IF txn_type = Tag.deposit THEN "paper_deposits"
    ELSE IF txn_type = Tag.transfer THEN "transfers"
    ELSE IF txn_type = Tag.wire_transfer THEN "electronic_withdrawals"
    ELSE IF txn_type \in FeeTags THEN "fees_services"
    ELSE IF txn_type \in PaymentTags THEN "electronic_withdrawals"
    ELSE AmountCategory(amount)

\* the branch "if txn_type:" of categorize_transactions
TypeCategory(txn_type, amount) ==
    IF txn_type = Tag.deposit THEN "paper_deposits"
    ELSE IF txn_type = Tag.transfer THEN "transfers"
    ELSE IF txn_type = Tag.wire_transfer THEN "electronic_withdrawals"
    ELSE IF txn_type = Tag.zelle THEN "electronic_withdrawals"
    ELSE IF txn_type \in FeeTags THEN "fees_services"
    ELSE IF txn_type \in PaymentTags THEN "electronic_withdrawals"
    ELSE AmountCategory(amount)

\* fault variant of DescriptionCategory: 'check' is tested before 'transfer'
DescriptionCategory_CheckFirst(description, amount) ==
    IF Contains(description, <<"p","a","p","e","r"," ","d","e","p","o","s","i","t">>) THEN "paper_deposits"
    ELSE IF Contains(description, <<"c","h","e","c","k">>) THEN "checks"
    ELSE IF Contains(description, <<"t","r","a","n","s","f","e","r">>) \/ Contains(description, <<"w","e","b","f","u","n","d","s","t","r","a","n","s","f","e","r">>)
         THEN "transfers"
    ELSE IF \E keyword \in {<<"a","t","m">>, <<"d","e","b","i","t">>, <<"p","o","s">>, <<"p","u","r","c","h","a","s","e">>} : Contains(description, keyword)
         THEN "atm_debit"
    ELSE IF \E keyword \in {<<"f","e","e">>, <<"s","e","r","v","i","c","e"," ","c","h","a","r","g","e">>, <<"o","v","e","r","d","r","a","f","t">>} : Contains(description, keyword)
         THEN "fees_services"
    ELSE AmountCategory(amount)

\* the branch "else:" of categorize_transactions, on the lower-cased description
DescriptionCategory(description, amount) ==
    IF Contains(description, <<"p","a","p","e","r"," ","d","e","p","o","s","i","t">>) THEN "paper_deposits"
    ELSE IF Contains(description, <<"t","r","a","n","s","f","e","r">>) \/ Contains(description, <<"w","e","b","f","u","n","d","s","t","r","a","n","s","f","e","r">>)
         THEN "transfers"
    ELSE IF Contains(description, <<"c","h","e","c","k">>) THEN "checks"
    ELSE IF \E keyword \in {<<"a","t","m">>, <<"d","e","b","i","t">>, <<"p","o","s">>, <<"p","u","r","c","h","a","s","e">>} : Contains(description, keyword)
         THEN "atm_debit"
    ELSE IF \E keyword \in {<<"f","e","e">>, <<"s","e","r","v","i","c","e"," ","c","h","a","r","g","e">>, <<"o","v","e","r","d","r","a","f","t">>} : Contains(description, keyword)
         THEN "fees_services"
    ELSE AmountCategory(amount)

\* fault variant of Category: a record with an unmapped type tag is categorized
\* by its description
Category_KeywordsForUnmapped(txn) ==
    IF Lower(txn.type) \in ({Tag.deposit, Tag.transfer, Tag.wire_transfer, Tag.zelle}
                            \cup FeeTags \cup PaymentTags)
    THEN TypeCategory(Lower(txn.type), txn.amount)
    ELSE DescriptionCategory(Lower(txn.description), txn.amount)

\* the list one iteration of the loop of categorize_transactions appends txn to
Category(txn) ==
    IF Lower(txn.type) # <<>>
    THEN TypeCategory(Lower(txn.type), txn.amount)
    ELSE DescriptionCategory(Lower(txn.description), txn.amount)

\* the positions 1..n in ascending order
Positions(n) == [i \in 1..n |-> i]

\* comprehensive_analysis.categorize_transactions: the seven lists, each in input order
categorize_transactions(transactions) ==
    [c \in {CategoryNames[k] : k \in 1..Len(CategoryNames)} |->
        PickIdx(Positions(Len(transactions)),
                {i \in 1..Len(transactions) : Category(transactions[i]) = c}, 1)]

\* fault variant of FirstWord: the whole description without surrounding whitespace
FirstWord_Stripped(description) == Strip(description)

\* words[0] if len(words) > 0 else description
FirstWord(description) ==
    IF SplitWs(description) # <<>> THEN SplitWs(description)[1] ELSE description

\* the label of a named-lender payment tag
PaymentLabel(txn_type) ==
    IF Contains(txn_type, <<"w","e","l","l","s","_","f","a","r","g","o">>) THEN <<"W","e","l","l","s"," ","F","a","r","g","o"," ","P","a","y","m","e","n","t">>
    ELSE IF Contains(txn_type, <<"t","o","y","o","t","a">>) THEN <<"T","o","y","o","t","a"," ","P","a","y","m","e","n","t">>
    ELSE IF Contains(txn_type, <<"a","l","l","y">>) THEN <<"A","l","l","y"," ","P","a","y","m","e","n","t">>
    ELSE IF Contains(txn_type, <<"g","m","_","f","i","n","a","n","c","i","a","l">>) THEN <<"G","M"," ","F","i","n","a","n","c","i","a","l"," ","P","a","y","m","e","n","t">>
    ELSE IF Contains(txn_type, <<"f","o","r","d">>) THEN <<"F","o","r","d"," ","P","a","y","m","e","n","t">>
    ELSE IF Contains(txn_type, <<"t","d","_","a","u","t","o">>) THEN <<"T","D"," ","A","u","t","o"," ","P","a","y","m","e","n","t">>
    ELSE IF Contains(txn_type, <<"b","r","i","d","g","e","c","r","e","s","t">>) THEN <<"B","r","i","d","g","e","c","r","e","s","t"," ","P","a","y","m","e","n","t">>
    ELSE <<"O","t","h","e","r"," ","P","a","y","m","e","n","t">>

\* the branch "else:" of the key chain of group_similar_transactions
SimilarDescriptionKey(description) ==
    IF Contains(description, <<"*">>) THEN Strip(BeforeFirst(description, "*"))
    ELSE IF Contains(Lower(description), <<"c","h","e","c","k"," ","#">>) THEN <<"C","h","e","c","k","s">>
    ELSE IF Contains(Lower(description), <<"p","a","p","e","r"," ","d","e","p","o","s","i","t">>) THEN <<"P","a","p","e","r"," ","D","e","p","o","s","i","t","s">>
    ELSE IF Contains(Lower(description), <<"t","r","a","n","s","f","e","r">>) THEN <<"T","r","a","n","s","f","e","r","s">>
    ELSE IF Contains(Lower(description), <<"f","e","e">>) THEN <<"F","e","e","s">>
    ELSE IF Contains(Lower(description), <<"z","e","l","l","e">>) THEN <<"Z","e","l","l","e">>
    ELSE IF Contains(Lower(description), <<"w","i","r","e">>) THEN <<"W","i","r","e"," ","T","r","a","n","s","f","e","r">>
    ELSE FirstWord(description)

\* the key group_similar_transactions files txn under
SimilarKey(txn) ==
    IF Lower(txn.type) = Tag.deposit THEN <<"P","a","p","e","r"," ","D","e","p","o","s","i","t","s">>
    ELSE IF Lower(txn.type) = Tag.transfer THEN <<"W","e","b","F","u","n","d","s"," ","T","r","a","n","s","f","e","r">>
    ELSE IF Lower(txn.type) = Tag.wire_transfer THEN <<"W","i","r","e"," ","T","r","a","n","s","f","e","r">>
    ELSE IF Lower(txn.type) = Tag.zelle THEN <<"Z","e","l","l","e">>
    ELSE IF Lower(txn.type) \in FeeTags THEN <<"F","e","e","s">>
    ELSE IF Lower(txn.type) \in PaymentTags THEN PaymentLabel(Lower(txn.type))
    ELSE SimilarDescriptionKey(txn.description)

\* the key group_transactions_by_merchant files a description under
MerchantKey(description) ==
    IF Contains(description, <<"U","b","e","r">>) \/ Contains(description, <<"U","b","e","r","T","r","i","p">>)
    THEN <<"U","b","e","r"," ","(","A","l","l"," ","S","e","r","v","i","c","e","s",")">>
    ELSE IF StartsWith(description, <<"Q","t">>) THEN <<"Q","u","i","k","T","r","i","p"," ","(","A","l","l"," ","L","o","c","a","t","i","o","n","s",")">>
    ELSE IF StartsWith(description, <<"D","i","s","c","o","u","n","t">>) THEN <<"D","i","s","c","o","u","n","t"," ","T","i","r","e">>
    ELSE IF Contains(description, <<"*">>) THEN Strip(BeforeFirst(description, "*"))
    ELSE IF StartsWith(description, <<"W","/","D","A","t">>) THEN <<"A","T","M"," ","W","i","t","h","d","r","a","w","a","l">>
    ELSE IF Contains(description, <<"V","e","h","r","e","g">>) THEN <<"V","e","h","i","c","l","e"," ","R","e","g","i","s","t","r","a","t","i","o","n">>
    ELSE IF Contains(description, <<".","g","o","v">>) THEN <<"G","o","v","e","r","n","m","e","n","t"," ","S","e","r","v","i","c","e","s">>
    ELSE IF Contains(description, <<"B","a","n","k","F","e","e">>) \/ Contains(description, <<"A","T","M","U","s","a","g","e","F","e","e">>)
         THEN <<"B","a","n","k"," ","F","e","e","s">>
    ELSE FirstWord(description)

\* defaultdict(list) filled in list order: the keys in the order they are first
\* met, each with the references filed under it, in list order
KeyOrder(keys) ==
    PickIdx(Positions(Len(keys)),
            {i \in 1..Len(keys) : \A j \in 1..(i - 1) : keys[j] # keys[i]}, 1)

\* fault variant of Members: the references filed under key, last one first
Members_Reversed(keys, key) ==
    [p \in 1..Cardinality({i \in 1..Len(keys) : keys[i] = key}) |->
        PickIdx(Positions(Len(keys)), {i \in 1..Len(keys) : keys[i] = key}, 1)
            [Cardinality({i \in 1..Len(keys) : keys[i] = key}) + 1 - p]]

Members(keys, key) ==
    PickIdx(Positions(Len(keys)), {i \in 1..Len(keys) : keys[i] = key}, 1)

\* sum(txn['amount'] for txn in txns) over the referenced records
TotalOf(transactions, refs) == SumSeq([k \in 1..Len(refs) |-> transactions[refs[k]].amount])

\* the dict of totals both grouping functions build, in key insertion order
GroupTotals(transactions, keys) ==
    [g \in 1..Len(KeyOrder(keys)) |->
        [merchant |-> keys[KeyOrder(keys)[g]],
         total_amount |-> TotalOf(transactions, Members(keys, keys[KeyOrder(keys)[g]])),
         transaction_count |-> Len(Members(keys, keys[KeyOrder(keys)[g]])),
         transactions |-> Members(keys, keys[KeyOrder(keys)[g]])]]

\* comprehensive_analysis.group_similar_transactions
group_similar_transactions(transactions) ==
    GroupTotals(transactions, [i \in 1..Len(transactions) |-> SimilarKey(transactions[i])])

\* extraction.group_transactions_by_merchant
group_transactions_by_merchant(transactions) ==
    GroupTotals(transactions,
                [i \in 1..Len(transactions) |-> MerchantKey(transactions[i].description)])

\* sorted(totals.items(), key=lambda x: abs(x[1]['total_amount']), reverse=True)
RankKeyed(totals) ==
    [g \in 1..Len(totals) |-> [key |-> Abs(totals[g].total_amount), val |-> totals[g]]]

SortedByAbsTotal(totals) == Vals(SortDesc(RankKeyed(totals)))

\* extraction.print_grouped_transactions: the rows it prints and its two sums
print_grouped_transactions(merchant_totals) ==
    [sorted_merchants |-> SortedByAbsTotal(merchant_totals),
     grand_total |-> SumSeq([g \in 1..Len(merchant_totals) |-> merchant_totals[g].total_amount]),
     total_transactions |->
        SumSeq([g \in 1..Len(merchant_totals) |-> merchant_totals[g].transaction_count])]

\* comprehensive_analysis.print_category_summary: the rows it prints
print_category_summary(grouped_totals) ==
    [sorted_groups |-> SortedByAbsTotal(grouped_totals)]

\* analyze_transactions.extract_merchant
extract_merchant(description) ==
    IF Len(SplitBlank(description)) >= 2
    THEN IF Lower(SplitBlank(description)[1]) \in {<<"t","h","e">>, <<"a">>, <<"a","n">>}
         THEN SplitBlank(description)[1] \o <<" ">> \o SplitBlank(description)[2]
         ELSE SplitBlank(description)[1]
    ELSE description

\* analyze_transactions.analyze_transactions, on the records parse_transaction
\* builds (their key 'merchant' is extract_merchant(description))
analyze_transactions(transactions) ==
    [merchants |->
        SortedByAbsTotal(GroupTotals(transactions,
            [i \in 1..Len(transactions) |-> extract_merchant(transactions[i].description)])),
     total_spend |-> SumSeq(Amounts(transactions)),
     total_count |-> Len(transactions)]

(***************************************************************************)
(* Generated statements                                                    *)
(***************************************************************************)
RECURSIVE SeqsUpTo(_, _)
SeqsUpTo(S, n) ==
    IF n = 0 THEN {<<>>}
    ELSE LET shorter == SeqsUpTo(S, n - 1)
         IN  shorter \cup {Append(q, x) : q \in {r \in shorter : Len(r) = n - 1}, x \in S}

\* Prosperity lines
pPayroll == MdyLine(12, 5, 2024, <<"P","A","Y","R","O","L","L">>, FALSE, 10000)
pWalmartSigned == MdyLine(12, 2, 2024, <<"W","A","L","M","A","R","T"," ","#","1","2","3">>, TRUE, 4567)
pWalmart == MdyLine(12, 2, 2024, <<"W","A","L","M","A","R","T"," ","#","1","2","3">>, FALSE, 4567)
pMonth13 == MdyLine(13, 1, 2024, <<"A","D","J","U","S","T","M","E","N","T">>, FALSE, 500)
ProsperityAlphabet ==
    {Marker("DepHdr"), Marker("DebHdr"), Marker("Checks"), PB,
     pPayroll, pWalmartSigned, pWalmart, pMonth13}

\* Chase / Wells Fargo lines
mPurchase == MdLine(1, 5, <<"C","A","R","D"," ","P","U","R","C","H","A","S","E">>, TRUE, 1234)
mDeposit == MdLine(1, 3, <<"D","E","P","O","S","I","T">>, FALSE, 50000)
MdAlphabet == {mPurchase, mDeposit, Marker("DailyBal")}

\* Comerica lines
cDeposit == CmLine(<<<<"A","p","r","1","0">>, <<"1",",","0","0","0",".","0","0">>, <<"0","3","2","0","1","4","6","5","5","5">>>>)
cTransfer == CmLine(<<<<"A","p","r","1","8">>, <<"1","9","0",".","0","0">>, <<"W","e","b","F","u","n","d","s","T","r","a","n","s","f","e","r","F","r","o","m","A","c","c","o","u","n","t">>, <<"X","x","x","x","x","x","6","6","4","9">>, <<"W","B","1","0","4","0","9","8","7","3">>>>)
cWire == CmLine(<<<<"A","p","r","1","8">>, <<"5","0","0",".","0","0">>, <<"W","i","r","e","#","1","2">>, <<"1","2","3","4","5","6">>>>)
cMisc == CmLine(<<<<"A","p","r","1","7">>, <<"-","5",".","0","0">>, <<"M","i","s","c","C","h","a","r","g","e">>, <<"1","2","3">>>>)
cFee == CmLine(<<<<"A","p","r","1","7">>, <<"-","2","6",".","0","0">>, <<"F","e","e","-","R","e","t","u","r","n","e","d","I","t","e","m">>, <<"0","9","7","0","3","1","4","4","3","3">>>>)
ComericaHeaders == {"HdrPaper", "HdrXfer", "HdrWd", "HdrFees"}
ComericaClosers == {"HdrWd", "XferSp", "WdSp", "FeesSp", "Lowest"}
ComericaTxnLines == {cDeposit, cTransfer, cWire, cMisc, cFee}
ComericaAlphabet == {Marker(h) : h \in ComericaHeaders} \cup ComericaTxnLines

\* the marker lines the detection predicates read, in a fixed reading order
DetectMarkers ==
    <<Marker("SS"), Marker("DepHdr"), Marker("Chase"), Marker("Activity"),
      Marker("WF"), Marker("History"), Marker("Comerica"), Marker("BBC")>>

Bodies ==
    \* every combination of detection markers
    {PickIdx(DetectMarkers, keep, 1) : keep \in SUBSET (1..Len(DetectMarkers))}
    \* Prosperity statements
    \cup {<<Marker("SS")>> \o b : b \in SeqsUpTo(ProsperityAlphabet, MaxLines)}
    \* Chase and Wells Fargo statements
    \cup {<<Marker("Chase"), Marker("Activity")>> \o b : b \in SeqsUpTo(MdAlphabet, MaxMdLines)}
    \cup {<<Marker("WF"), Marker("History")>> \o b : b \in SeqsUpTo(MdAlphabet, MaxMdLines)}
    \* Chase and Wells Fargo statements that print a statement period
    \cup {<<Marker("Chase"), Marker("Activity"), PeriodLine(2023)>> \o b :
            b \in SeqsUpTo(MdAlphabet, MaxMdLines)}
    \cup {<<Marker("WF"), Marker("History"), PeriodLine(2023)>> \o b :
            b \in SeqsUpTo(MdAlphabet, MaxMdLines)}
    \* Comerica statements, with and without the statement-period header
    \cup {<<Marker("Comerica"), Marker("BBC"), PeriodLine(2024)>> \o b :
            b \in SeqsUpTo(ComericaAlphabet, MaxCmLines)}
    \cup {<<Marker("Comerica"), Marker("BBC")>> \o b :
            b \in SeqsUpTo(ComericaAlphabet, MaxCmLines)}
    \* two-page Comerica statements: a section, closed by a marker line, that is
    \* continued under a repeated header on the second page
    \cup {<<Marker("Comerica"), Marker("BBC"), Marker(h), a, Marker(mid), PB, Marker(h), b>> :
            h \in ComericaHeaders, mid \in ComericaClosers, a \in ComericaTxnLines,
            b \in ComericaTxnLines}

\* the values datetime.now().year may take while the program runs
NowYears == {2025, 2026}

AnalysisIdle == txns = <<>> /\ op = "none" /\ out = <<>>

Init ==
    /\ all_text \in {BankStatementParser(b) : b \in Bodies}
    /\ entry \in {"cli", "web"}
    /\ pc = "detect"
    /\ idx = 1
    /\ tried = <<>>
    /\ ran = <<>>
    /\ result = [kind |-> "pending"]
    /\ AnalysisIdle

\* one iteration of "for parser_class in parsers" in extract_transactions_from_pdf
extract_transactions_from_pdf_loop ==
    /\ entry = "cli" /\ pc = "detect" /\ idx <= Len(parsers)
    /\ tried' = Append(tried, parsers[idx])
    /\ IF detect_format(parsers[idx], all_text)
       THEN \E now \in NowYears :
                /\ ran' = Append(ran, parsers[idx])
                /\ result' = CliReturn(extract_transactions(parsers[idx], all_text, now))
                /\ pc' = "done"
                /\ idx' = idx
       ELSE /\ idx' = idx + 1
            /\ UNCHANGED <<ran, result, pc>>
    /\ UNCHANGED <<all_text, entry, txns, op, out>>

\* the loop of extract_transactions_from_pdf ran out of parsers
extract_transactions_from_pdf_unknown ==
    /\ entry = "cli" /\ pc = "detect" /\ idx > Len(parsers)
    /\ result' = CliUnknownReturn
    /\ pc' = "done"
    /\ UNCHANGED <<all_text, entry, idx, tried, ran, txns, op, out>>

\* one iteration of "for parser_class in AVAILABLE_PARSERS" in process_statement
process_statement_loop ==
    /\ entry = "web" /\ pc = "detect" /\ idx <= Len(AVAILABLE_PARSERS)
    /\ tried' = Append(tried, AVAILABLE_PARSERS[idx])
    /\ IF detect_format(AVAILABLE_PARSERS[idx], all_text)
       THEN \E now \in NowYears :
                /\ ran' = Append(ran, AVAILABLE_PARSERS[idx])
                /\ result' = WebReturn(AVAILABLE_PARSERS[idx],
                                       extract_transactions(AVAILABLE_PARSERS[idx], all_text, now))
                /\ pc' = "done"
                /\ idx' = idx
       ELSE /\ idx' = idx + 1
            /\ UNCHANGED <<ran, result, pc>>
    /\ UNCHANGED <<all_text, entry, txns, op, out>>

\* the loop of process_statement ran out of parsers
process_statement_unknown ==
    /\ entry = "web" /\ pc = "detect" /\ idx > Len(AVAILABLE_PARSERS)
    /\ result' = WebUnknownReturn
    /\ pc' = "done"
    /\ UNCHANGED <<all_text, entry, idx, tried, ran, txns, op, out>>

Next ==
    \/ extract_transactions_from_pdf_loop
    \/ extract_transactions_from_pdf_unknown
    \/ process_statement_loop
    \/ process_statement_unknown

Spec == Init /\ [][Next]_vars

(***************************************************************************)
(* Generated transaction lists                                             *)
(***************************************************************************)
Txn(d, a, t) == [description |-> d, amount |-> a, type |-> t]

Descriptions ==
    {<<>>, <<" ">>, <<"W","a","l","m","a","r","t">>, <<"D","e","p","o","s","i","t">>, <<"P","a","p","e","r"," ","D","e","p","o","s","i","t"," ","R","e","f",":","1">>, <<"t","r","a","n","s","f","e","r"," ","c","h","e","c","k">>, <<"c","h","e","c","k"," ","f","e","e">>,
     <<"C","h","e","c","k"," ","#","1","2">>, <<"A","T","M"," ","F","e","e">>, <<"P","O","S"," ","P","u","r","c","h","a","s","e">>, <<"S","e","r","v","i","c","e"," ","C","h","a","r","g","e">>, <<"O","v","e","r","d","r","a","f","t">>,
     <<"W","e","b","F","u","n","d","s","T","r","a","n","s","f","e","r"," ","A","c","c","t">>, <<"U","b","e","r"," ","*","T","r","i","p">>, <<"L","Y","F","T"," ","*","1","R","I","D","E","1","2","-","2","9">>, <<"L","Y","F","T"," ","*","2","R","I","D","E">>, <<"Q","t"," ","1","2">>,
     <<"t","h","e"," ","s","h","o","p">>, <<"W","i","r","e","#","1","2"," ","R","e","f",":","1">>, <<"Z","e","l","l","e"," ","b","o","b">>, <<"W","/","D","A","t"," ","*","1","2">>, <<"V","e","h","r","e","g","*","T","X">>, <<"p","a","y",".","g","o","v"," ","*","1">>,
     <<"B","a","n","k","F","e","e"," ","*","2">>, <<"D","i","s","c","o","u","n","t"," ","*","T","i","r","e">>, <<"Q","t","*","7">>, <<" ","L","Y","F","T"," ","*"," ","x">>, <<"a","*","b","*","c">>, <<" "," ","s","h","o","p"," "," ","t","w","o">>,
     <<"W","/","D","A","t"," ","1","2">>, <<"T","X"," ","V","e","h","r","e","g">>}

TypeTags ==
    {<<>>, Tag.deposit, <<"D","e","p","o","s","i","t">>, Tag.transfer, Tag.wire_transfer, Tag.zelle, Tag.overdraft_fee,
     Tag.returned_item_fee, Tag.service_charge, Tag.other_fee, Tag.wells_fargo_payment, Tag.toyota_payment,
     Tag.ally_payment, Tag.gm_financial_payment, Tag.ford_payment, Tag.td_auto_payment,
     Tag.bridgecrest_payment, Tag.other_withdrawal, <<"c","h","e","c","k">>}

TxnAmounts == {-20000, -10000, 0, 10000}

\* the records lists are drawn from
TxnPool ==
    {Txn(<<"W","a","l","m","a","r","t">>, -10000, <<>>), Txn(<<"W","a","l","m","a","r","t">>, -20000, <<>>),
     Txn(<<"L","Y","F","T"," ","*","1","R","I","D","E","1","2","-","2","9">>, -10000, <<>>), Txn(<<"L","Y","F","T"," ","*","2","R","I","D","E">>, -20000, <<>>),
     Txn(<<"U","b","e","r"," ","*","T","r","i","p">>, 10000, <<>>),
     Txn(<<"A","d","j","u","s","t","m","e","n","t">>, 0, <<>>), Txn(<<"c","h","e","c","k"," ","f","e","e">>, -10000, <<>>),
     Txn(<<"W","i","r","e","#","1","2"," ","R","e","f",":","1">>, 10000, Tag.wire_transfer),
     Txn(<<"P","a","p","e","r"," ","D","e","p","o","s","i","t"," ","R","e","f",":","1">>, 10000, Tag.deposit)}

TxnLists ==
    {<<Txn(d, a, t)>> : d \in Descriptions, a \in TxnAmounts, t \in TypeTags}
    \cup SeqsUpTo(TxnPool, MaxTxns)

PipelineIdle ==
    /\ all_text = <<>> /\ entry = "none" /\ pc = "idle" /\ idx = 1
    /\ tried = <<>> /\ ran = <<>> /\ result = [kind |-> "pending"]

InitAnalysis ==
    /\ PipelineIdle
    /\ txns \in TxnLists
    /\ op = "start"
    /\ out = <<>>

\* fault variant of call_categorize_transactions: the lower-cased description is
\* written back into each record
call_categorize_transactions_WritesBack ==
    /\ op = "start"
    /\ out' = categorize_transactions(txns)
    /\ txns' = [i \in 1..Len(txns) |->
                    [txns[i] EXCEPT !.description = Lower(txns[i].description)]]
    /\ op' = "categorize_transactions"
    /\ UNCHANGED <<all_text, entry, pc, idx, tried, ran, result>>

call_categorize_transactions ==
    /\ op = "start"
    /\ out' = categorize_transactions(txns)
    /\ op' = "categorize_transactions"
    /\ UNCHANGED <<all_text, entry, pc, idx, tried, ran, result, txns>>

call_group_similar_transactions ==
    /\ op = "start"
    /\ out' = group_similar_transactions(txns)
    /\ op' = "group_similar_transactions"
    /\ UNCHANGED <<all_text, entry, pc, idx, tried, ran, result, txns>>

call_group_transactions_by_merchant ==
    /\ op = "start"
    /\ out' = group_transactions_by_merchant(txns)
    /\ op' = "group_transactions_by_merchant"
    /\ UNCHANGED <<all_text, entry, pc, idx, tried, ran, result, txns>>

\* print_grouped_transactions(merchant_totals) on what group_transactions_by_merchant
\* returned; "if not merchant_totals: return" prints nothing for an empty dict
call_print_grouped_transactions ==
    /\ op = "group_transactions_by_merchant"
    /\ out # <<>>
    /\ out' = print_grouped_transactions(out)
    /\ op' = "print_grouped_transactions"
    /\ UNCHANGED <<all_text, entry, pc, idx, tried, ran, result, txns>>

\* print_category_summary(name, transactions, grouped_totals) on what
\* group_similar_transactions returned; "if not transactions: return"
call_print_category_summary ==
    /\ op = "group_similar_transactions"
    /\ txns # <<>>
    /\ out' = print_category_summary(out)
    /\ op' = "print_category_summary"
    /\ UNCHANGED <<all_text, entry, pc, idx, tried, ran, result, txns>>

call_analyze_transactions ==
    /\ op = "start"
    /\ out' = analyze_transactions(txns)
    /\ op' = "analyze_transactions"
    /\ UNCHANGED <<all_text, entry, pc, idx, tried, ran, result, txns>>

NextAnalysis ==
    \/ call_categorize_transactions
    \/ call_group_similar_transactions
    \/ call_group_transactions_by_merchant
    \/ call_print_grouped_transactions
    \/ call_print_category_summary
    \/ call_analyze_transactions

SpecAnalysis == InitAnalysis /\ [][NextAnalysis]_vars

(***************************************************************************)
(* Properties of the pipeline (specification Spec)                         *)
(***************************************************************************)
\* the parser list of the entry point, as the two sources declare it
DeclaredOrder ==
    IF entry = "cli" THEN <<"ProsperityBankParser", "ChaseParser", "WellsFargoParser">>
    ELSE <<"ComericaParser", "ProsperityParser">>

NoParserDetects ==
    \A j \in 1..Len(DeclaredOrder) : ~detect_format(DeclaredOrder[j], all_text)

\* the entry point returned a transaction list (alone or inside the result dict)
Returned == pc = "done" /\ result.kind \in {"list", "dict"}

\* C1: detection tries the parsers in the declared order (extraction.py: Prosperity,
\* Chase, Wells Fargo; parsers package: Comerica, Prosperity); the parser that runs
\* is the first whose detect_format is true, every parser tried before it answered
\* false, and no other parser is run, also when later parsers would detect the text.
C1_DetectionOrder ==
    /\ Len(tried) <= Len(DeclaredOrder)
    /\ tried = SubSeq(DeclaredOrder, 1, Len(tried))
    /\ Len(ran) <= 1
    /\ \A j \in 1..(Len(tried) - 1) : ~detect_format(tried[j], all_text)
    /\ ran # <<>> =>
          /\ pc = "done"
          /\ ran[1] = tried[Len(tried)]
          /\ detect_format(ran[1], all_text)
    /\ (pc = "done" /\ ran = <<>>) => (tried = DeclaredOrder /\ NoParserDetects)
    /\ (pc = "done" /\ result.kind = "dict") => result.format = ran[1]

\* C1 witness: a text both Prosperity and Chase detect went through
\* extract_transactions_from_pdf, and only the Prosperity parser ran
C1_TwoParsersMatch ==
    /\ pc = "done" /\ entry = "cli"
    /\ ProsperityBankParser_detect_format(all_text)
    /\ ChaseParser_detect_format(all_text)
    /\ tried = <<"ProsperityBankParser">>
    /\ ran = <<"ProsperityBankParser">>

C3_NoDuplicateTriples ==
    Returned =>
        \A i, j \in 1..Len(result.transactions) :
            i < j => DedupKey(result.transactions[i]) # DedupKey(result.transactions[j])

\* the type tags the Comerica grammar gives in its withdrawals and fees sections,
\* and in its deposits and transfers sections
ComericaDebitTypes ==
    {"wire_transfer", "zelle", "wells_fargo_payment", "toyota_payment", "ally_payment",
     "gm_financial_payment", "ford_payment", "td_auto_payment", "bridgecrest_payment",
     "other_withdrawal", "overdraft_fee", "returned_item_fee", "service_charge", "other_fee"}
ComericaCreditTypes == {"deposit", "transfer"}

\* the sign of t fits a Prosperity section of the text that holds its line
ProsperitySignFits(t) ==
    \E s \in 1..Len(ProsperitySections(all_text)) :
        /\ \E k \in 1..Len(ProsperitySections(all_text)[s].lines) :
              ProsperitySections(all_text)[s].lines[k] = t.raw_line
        /\ ProsperitySections(all_text)[s].type = "debit" => t.amount <= 0
        /\ ProsperitySections(all_text)[s].type = "deposit" => t.amount >= 0

\* C4 as stated: a transaction from a section marked debit/withdrawal (Prosperity
\* OTHER DEBITS, Comerica electronic withdrawals and fees) has amount <= 0, one from
\* a section marked credit/deposit has amount >= 0, whatever sign the token carries
C4_SignNormalization ==
    Returned =>
        \A i \in 1..Len(result.transactions) :
            /\ ran[1] = "ComericaParser" =>
                  /\ result.transactions[i].type \in ComericaDebitTypes =>
                        result.transactions[i].amount <= 0
                  /\ result.transactions[i].type \in ComericaCreditTypes =>
                        result.transactions[i].amount >= 0
            /\ ran[1] \in {"ProsperityBankParser", "ProsperityParser"} =>
                  ProsperitySignFits(result.transactions[i])

\* the calendar date a returned record's date string parses to
ReturnedDateValid(t) == IF ran[1] = "ComericaParser" THEN CmValid(t) ELSE MdyValid(t)
ReturnedDateKey(t) ==
    IF ran[1] = "ComericaParser"
    THEN DateKey(MonthNum(t.date.mon), DigitsVal(t.date.day), t.date.year)
    ELSE DateKey(t.date[1], t.date[2], t.date[3])

\* C7 as stated: the list an entry point returns is non-decreasing by parsed
\* calendar date, whichever parser the detector selected
C7_SortedByDate ==
    Returned =>
        \A i, j \in 1..Len(result.transactions) :
            (/\ i < j
             /\ ReturnedDateValid(result.transactions[i])
             /\ ReturnedDateValid(result.transactions[j]))
            => ReturnedDateKey(result.transactions[i]) <= ReturnedDateKey(result.transactions[j])

(***************************************************************************)
(* Properties of the analysis functions (specification SpecAnalysis)       *)
(***************************************************************************)
\* the positions at which the category lists of out hold a reference to record i
Placements(i) ==
    {<<k, p>> \in (1..Len(CategoryNames)) \X (1..Len(txns)) :
        p <= Len(out[CategoryNames[k]]) /\ out[CategoryNames[k]][p] = i}

\* record i is in the list named c, once, and in no other list
OnlyIn(i, c) ==
    /\ Cardinality(Placements(i)) = 1
    /\ \A pl \in Placements(i) : CategoryNames[pl[1]] = c

SumOfAmounts == SumSeq(Amounts(txns))

\* C5 as stated: the amounts and the counts of the category lists of
\* categorize_transactions, and of the groups of either grouping function, add up
\* to the amount and the length of the input list
C5_Conservation ==
    /\ op = "categorize_transactions" =>
          /\ SumSeq([k \in 1..Len(CategoryNames) |-> TotalOf(txns, out[CategoryNames[k]])])
                = SumOfAmounts
          /\ SumSeq([k \in 1..Len(CategoryNames) |-> Len(out[CategoryNames[k]])]) = Len(txns)
    /\ op \in {"group_similar_transactions", "group_transactions_by_merchant"} =>
          /\ SumSeq([g \in 1..Len(out) |-> out[g].total_amount]) = SumOfAmounts
          /\ SumSeq([g \in 1..Len(out) |-> out[g].transaction_count]) = Len(txns)

\* C6 as stated: categorize_transactions places every input transaction in exactly
\* one of the seven lists, for every type tag, description and amount
C6_ExactlyOneCategory ==
    op = "categorize_transactions" =>
        \A i \in 1..Len(txns) : Cardinality(Placements(i)) = 1

\* the rows of a ranked report, and the key the report's grouping files record i under
Ranked ==
    IF op = "print_grouped_transactions" THEN out.sorted_merchants
    ELSE IF op = "print_category_summary" THEN out.sorted_groups
    ELSE out.merchants
RankedKey(i) ==
    IF op = "print_grouped_transactions" THEN MerchantKey(txns[i].description)
    ELSE IF op = "print_category_summary" THEN SimilarKey(txns[i])
    ELSE extract_merchant(txns[i].description)
\* the position in the transaction list at which key m is first met
FirstMet(m) ==
    CHOOSE i \in 1..Len(txns) : RankedKey(i) = m /\ \A j \in 1..(i - 1) : RankedKey(j) # m

\* C8: a ranked report (print_grouped_transactions, print_category_summary,
\* analyze_transactions) has one row per key met in the list, with the sum of that
\* key's amounts; the rows are in descending order of absolute total, and rows
\* with equal absolute totals are in the order in which their keys were first met.
C8_RankingStable ==
    op \in {"print_grouped_transactions", "print_category_summary", "analyze_transactions"} =>
        /\ Len(Ranked) = Cardinality({RankedKey(i) : i \in 1..Len(txns)})
        /\ \A g \in 1..Len(Ranked) :
              /\ \E i \in 1..Len(txns) : RankedKey(i) = Ranked[g].merchant
              /\ Ranked[g].total_amount =
                    SumSeq([i \in 1..Len(txns) |->
                              IF RankedKey(i) = Ranked[g].merchant THEN txns[i].amount ELSE 0])
        /\ \A g \in 1..(Len(Ranked) - 1) :
              /\ Abs(Ranked[g].total_amount) >= Abs(Ranked[g + 1].total_amount)
              /\ Abs(Ranked[g].total_amount) = Abs(Ranked[g + 1].total_amount)
                    => FirstMet(Ranked[g].merchant) < FirstMet(Ranked[g + 1].merchant)

\* C8 witness: print_grouped_transactions ranked a key met last in the list first,
\* ahead of two keys whose absolute totals are equal
C8_TieAfterReordering ==
    /\ op = "print_grouped_transactions"
    /\ Len(Ranked) >= 3
    /\ FirstMet(Ranked[1].merchant) = Len(txns)
    /\ \E g \in 2..(Len(Ranked) - 1) :
          Abs(Ranked[g].total_amount) = Abs(Ranked[g + 1].total_amount)

\* C9: a transaction that carries a grammar-assigned type tag is placed by the tag
\* alone: deposit in paper_deposits; transfer in transfers; wire_transfer, zelle and
\* the named-lender payment tags in electronic_withdrawals; the four fee tags in
\* fees_services; whatever its description and amount.
C9_TagDecidesCategory ==
    op = "categorize_transactions" =>
        \A i \in 1..Len(txns) :
            /\ txns[i].type = Tag.deposit => OnlyIn(i, "paper_deposits")
            /\ txns[i].type = Tag.transfer => OnlyIn(i, "transfers")
            /\ txns[i].type \in {Tag.wire_transfer, Tag.zelle, Tag.wells_fargo_payment, Tag.toyota_payment,
                                 Tag.ally_payment, Tag.gm_financial_payment, Tag.ford_payment,
                                 Tag.td_auto_payment, Tag.bridgecrest_payment}
                  => OnlyIn(i, "electronic_withdrawals")
            /\ txns[i].type \in {Tag.overdraft_fee, Tag.returned_item_fee, Tag.service_charge, Tag.other_fee}
                  => OnlyIn(i, "fees_services")

\* C9 witness: a zelle record with a positive amount and 'check' in its description
\* was categorized, and is in electronic_withdrawals
C9_ZelleWithCheckPlaced ==
    /\ op = "categorize_transactions"
    /\ \E i \in 1..Len(txns) :
          /\ txns[i].type = Tag.zelle /\ txns[i].amount > 0
          /\ Contains(Lower(txns[i].description), <<"c","h","e","c","k">>)
          /\ OnlyIn(i, "electronic_withdrawals")

\* the lower-cased description of record i holds the keyword
Has(i, keyword) == Contains(Lower(txns[i].description), keyword)
HasCardWord(i) == Has(i, <<"a","t","m">>) \/ Has(i, <<"d","e","b","i","t">>) \/ Has(i, <<"p","o","s">>) \/ Has(i, <<"p","u","r","c","h","a","s","e">>)
HasFeeWord(i) == Has(i, <<"f","e","e">>) \/ Has(i, <<"s","e","r","v","i","c","e"," ","c","h","a","r","g","e">>) \/ Has(i, <<"o","v","e","r","d","r","a","f","t">>)

\* C10: a transaction without a type tag is placed by the first rule its lower-cased
\* description matches, in the order 'paper deposit', 'transfer', 'check',
\* {atm, debit, pos, purchase}, {fee, service charge, overdraft}.
C10_KeywordOrder ==
    op = "categorize_transactions" =>
        \A i \in 1..Len(txns) :
            txns[i].type = <<>> =>
                /\ Has(i, <<"p","a","p","e","r"," ","d","e","p","o","s","i","t">>) => OnlyIn(i, "paper_deposits")
                /\ (~Has(i, <<"p","a","p","e","r"," ","d","e","p","o","s","i","t">>) /\ Has(i, <<"t","r","a","n","s","f","e","r">>)) => OnlyIn(i, "transfers")
                /\ (~Has(i, <<"p","a","p","e","r"," ","d","e","p","o","s","i","t">>) /\ ~Has(i, <<"t","r","a","n","s","f","e","r">>) /\ Has(i, <<"c","h","e","c","k">>))
                      => OnlyIn(i, "checks")
                /\ (~Has(i, <<"p","a","p","e","r"," ","d","e","p","o","s","i","t">>) /\ ~Has(i, <<"t","r","a","n","s","f","e","r">>) /\ ~Has(i, <<"c","h","e","c","k">>)
                    /\ HasCardWord(i)) => OnlyIn(i, "atm_debit")
                /\ (~Has(i, <<"p","a","p","e","r"," ","d","e","p","o","s","i","t">>) /\ ~Has(i, <<"t","r","a","n","s","f","e","r">>) /\ ~Has(i, <<"c","h","e","c","k">>)
                    /\ ~HasCardWord(i) /\ HasFeeWord(i)) => OnlyIn(i, "fees_services")

\* C10 witness: an untagged record whose description holds both 'transfer' and
\* 'check' was categorized, and is in transfers
C10_TransferBeforeCheck ==
    /\ op = "categorize_transactions"
    /\ \E i \in 1..Len(txns) :
          /\ txns[i].type = <<>>
          /\ Has(i, <<"t","r","a","n","s","f","e","r">>) /\ Has(i, <<"c","h","e","c","k">>)
          /\ OnlyIn(i, "transfers")


\* record i has no type tag and its lower-cased description holds no keyword of the
\* description chain of categorize_transactions
NoTagNoKeyword(i) ==
    /\ txns[i].type = <<>>
    /\ ~Has(i, <<"p","a","p","e","r"," ","d","e","p","o","s","i","t">>) /\ ~Has(i, <<"t","r","a","n","s","f","e","r">>) /\ ~Has(i, <<"w","e","b","f","u","n","d","s","t","r","a","n","s","f","e","r">>)
    /\ ~Has(i, <<"c","h","e","c","k">>) /\ ~HasCardWord(i) /\ ~HasFeeWord(i)

\* C11 as stated: a transaction with no type tag and no matching keyword is placed
\* by the sign of its amount: positive in deposits, negative in
\* electronic_withdrawals, and exactly zero in the fees-and-services bucket
C11_AmountSignFallback ==
    op = "categorize_transactions" =>
        \A i \in 1..Len(txns) :
            NoTagNoKeyword(i) =>
                /\ txns[i].amount > 0 => OnlyIn(i, "deposits")
                /\ txns[i].amount < 0 => OnlyIn(i, "electronic_withdrawals")
                /\ txns[i].amount = 0 => OnlyIn(i, "fees_services")

\* the groups of out whose transactions list holds a reference to record i
GroupsOf(i) ==
    {g \in 1..Len(out) :
        \E p \in 1..Len(out[g].transactions) : out[g].transactions[p] = i}
\* record i is filed under the key label
FiledUnder(i, label) == \E g \in GroupsOf(i) : out[g].merchant = label

\* the labels of the special-cased service families a description matches
FamilyLabels(description) ==
    {label \in {<<"U","b","e","r"," ","(","A","l","l"," ","S","e","r","v","i","c","e","s",")">>, <<"Q","u","i","k","T","r","i","p"," ","(","A","l","l"," ","L","o","c","a","t","i","o","n","s",")">>, <<"D","i","s","c","o","u","n","t"," ","T","i","r","e">>,
                <<"A","T","M"," ","W","i","t","h","d","r","a","w","a","l">>, <<"V","e","h","i","c","l","e"," ","R","e","g","i","s","t","r","a","t","i","o","n">>, <<"G","o","v","e","r","n","m","e","n","t"," ","S","e","r","v","i","c","e","s">>, <<"B","a","n","k"," ","F","e","e","s">>} :
        \/ label = <<"U","b","e","r"," ","(","A","l","l"," ","S","e","r","v","i","c","e","s",")">> /\ Contains(description, <<"U","b","e","r">>)
        \/ label = <<"Q","u","i","k","T","r","i","p"," ","(","A","l","l"," ","L","o","c","a","t","i","o","n","s",")">> /\ StartsWith(description, <<"Q","t">>)
        \/ label = <<"D","i","s","c","o","u","n","t"," ","T","i","r","e">> /\ StartsWith(description, <<"D","i","s","c","o","u","n","t">>)
        \/ label = <<"A","T","M"," ","W","i","t","h","d","r","a","w","a","l">> /\ StartsWith(description, <<"W","/","D","A","t">>)
        \/ label = <<"V","e","h","i","c","l","e"," ","R","e","g","i","s","t","r","a","t","i","o","n">> /\ Contains(description, <<"V","e","h","r","e","g">>)
        \/ label = <<"G","o","v","e","r","n","m","e","n","t"," ","S","e","r","v","i","c","e","s">> /\ Contains(description, <<".","g","o","v">>)
        \/ label = <<"B","a","n","k"," ","F","e","e","s">>
           /\ (Contains(description, <<"B","a","n","k","F","e","e">>) \/ Contains(description, <<"A","T","M","U","s","a","g","e","F","e","e">>))}

\* C12 as stated: group_transactions_by_merchant keys a description that matches a
\* special-cased service family by a label of such a family, also when the
\* description contains '*'; the '*' rule applies only when no family matches
C12_FamilyBeforeStar ==
    op = "group_transactions_by_merchant" =>
        \A i \in 1..Len(txns) :
            FamilyLabels(txns[i].description) # {} =>
                \E label \in FamilyLabels(txns[i].description) : FiledUnder(i, label)

\* pre is the text of description before its first '*'
IsStarPrefix(pre, description) ==
    /\ Len(pre) < Len(description)
    /\ pre = SubSeq(description, 1, Len(pre))
    /\ description[Len(pre) + 1] = "*"
    /\ \A j \in 1..Len(pre) : pre[j] # "*"

\* key is s without its leading and trailing whitespace
IsTrimmed(key, s) ==
    /\ key # <<>> => (~IsSpace(key[1]) /\ ~IsSpace(key[Len(key)]))
    /\ \E lo \in 1..(Len(s) + 1) :
          /\ Len(key) <= Len(s) - lo + 1
          /\ key = SubSeq(s, lo, lo + Len(key) - 1)
          /\ \A j \in 1..Len(s) : (j < lo \/ j >= lo + Len(key)) => IsSpace(s[j])

\* the type tags the chain of group_similar_transactions maps to a label
LabelledTags == {Tag.deposit, Tag.transfer, Tag.wire_transfer, Tag.zelle} \cup FeeTags \cup PaymentTags

\* the '*' rule is the first rule of the running function's key chain that record i matches
StarRuleFirst(i) ==
    /\ Contains(txns[i].description, <<"*">>)
    /\ op = "group_transactions_by_merchant" => FamilyLabels(txns[i].description) = {}
    /\ op = "group_similar_transactions" => Lower(txns[i].type) \notin LabelledTags

\* the text of record i before its first '*'
StarPrefix(i) ==
    CHOOSE pre \in {SubSeq(txns[i].description, 1, n) : n \in 0..Len(txns[i].description)} :
        IsStarPrefix(pre, txns[i].description)

\* C13: when the '*' rule is the first rule a description matches, the record is
\* filed in one group whose key is the text before the first '*' without its
\* leading and trailing whitespace, and two such records with the same trimmed
\* prefix are in the same group (both grouping functions).
C13_StarPrefixKey ==
    op \in {"group_transactions_by_merchant", "group_similar_transactions"} =>
        /\ \A i \in 1..Len(txns) :
              StarRuleFirst(i) =>
                  /\ Cardinality(GroupsOf(i)) = 1
                  /\ \A g \in GroupsOf(i) : IsTrimmed(out[g].merchant, StarPrefix(i))
        /\ \A i, j \in 1..Len(txns) :
              (/\ StarRuleFirst(i) /\ StarRuleFirst(j)
               /\ \E n \in 0..Len(StarPrefix(i)), lo \in 1..(Len(StarPrefix(i)) + 1) :
                     /\ lo + n - 1 <= Len(StarPrefix(i))
                     /\ IsTrimmed(SubSeq(StarPrefix(i), lo, lo + n - 1), StarPrefix(i))
                     /\ IsTrimmed(SubSeq(StarPrefix(i), lo, lo + n - 1), StarPrefix(j)))
              => GroupsOf(i) = GroupsOf(j)

\* C13 witness: group_transactions_by_merchant filed "LYFT *1RIDE12-29" and
\* "LYFT *2RIDE" together under the key "LYFT"
C13_LyftGrouped ==
    /\ op = "group_transactions_by_merchant"
    /\ \E i, j \in 1..Len(txns) :
          /\ txns[i].description = <<"L","Y","F","T"," ","*","1","R","I","D","E","1","2","-","2","9">>
          /\ txns[j].description = <<"L","Y","F","T"," ","*","2","R","I","D","E">>
          /\ FiledUnder(i, <<"L","Y","F","T">>) /\ GroupsOf(i) = GroupsOf(j)

\* C14 as stated: group_similar_transactions evaluates the '*' rule before the
\* type-derived label: a record that carries a type tag and whose description
\* contains '*' is keyed by the trimmed text before the first '*'
C14_StarBeforeTypeLabel ==
    op = "group_similar_transactions" =>
        \A i \in 1..Len(txns) :
            (txns[i].type # <<>> /\ Contains(txns[i].description, <<"*">>)) =>
                \A g \in GroupsOf(i) : IsTrimmed(out[g].merchant, StarPrefix(i))

\* key is the first maximal run of non-whitespace characters of s
IsFirstToken(key, s) ==
    /\ key # <<>>
    /\ \A j \in 1..Len(key) : ~IsSpace(key[j])
    /\ \E lo \in 1..Len(s) :
          /\ lo + Len(key) - 1 <= Len(s)
          /\ key = SubSeq(s, lo, lo + Len(key) - 1)
          /\ \A j \in 1..(lo - 1) : IsSpace(s[j])
          /\ lo + Len(key) <= Len(s) => IsSpace(s[lo + Len(key)])

\* no rule of the running function's key chain before the generic fallback matches record i
OnlyFallbackMatches(i) ==
    /\ ~Contains(txns[i].description, <<"*">>)
    /\ op = "group_transactions_by_merchant" => FamilyLabels(txns[i].description) = {}
    /\ op = "group_similar_transactions" =>
          /\ Lower(txns[i].type) \notin LabelledTags
          /\ ~Has(i, <<"c","h","e","c","k"," ","#">>) /\ ~Has(i, <<"p","a","p","e","r"," ","d","e","p","o","s","i","t">>) /\ ~Has(i, <<"t","r","a","n","s","f","e","r">>)
          /\ ~Has(i, <<"f","e","e">>) /\ ~Has(i, <<"z","e","l","l","e">>) /\ ~Has(i, <<"w","i","r","e">>)

\* C15: both grouping functions file every record, whatever its description, in
\* exactly one group and once; when only the generic fallback matches, the key is
\* the first whitespace-delimited token of the description, and the description
\* itself when it has no token (empty or all whitespace).
C15_KeyChainTotal ==
    op \in {"group_transactions_by_merchant", "group_similar_transactions"} =>
        \A i \in 1..Len(txns) :
            /\ Cardinality(GroupsOf(i)) = 1
            /\ \A g \in GroupsOf(i) :
                  /\ Cardinality({p \in 1..Len(out[g].transactions) :
                                     out[g].transactions[p] = i}) = 1
                  /\ OnlyFallbackMatches(i) =>
                        IF \E j \in 1..Len(txns[i].description) : ~IsSpace(txns[i].description[j])
                        THEN IsFirstToken(out[g].merchant, txns[i].description)
                        ELSE out[g].merchant = txns[i].description

\* C15 witness: group_similar_transactions filed a record whose description is a
\* single blank under the key " "
C15_BlankDescriptionFiled ==
    /\ op = "group_similar_transactions"
    /\ \E i \in 1..Len(txns) :
          /\ txns[i].description = <<" ">> /\ txns[i].type = <<>>
          /\ FiledUnder(i, <<" ">>)

\* the rows of the running function's grouping (the dict it returns or ranks)
GroupRows == IF op = "analyze_transactions" THEN out.merchants ELSE out
\* the key the running grouping function derives for record i
GroupKey(i) ==
    IF op = "group_transactions_by_merchant" THEN MerchantKey(txns[i].description)
    ELSE IF op = "group_similar_transactions" THEN SimilarKey(txns[i])
    ELSE extract_merchant(txns[i].description)

\* C16: for every key of the map a grouping function builds (group_transactions_by_merchant,
\* group_similar_transactions, analyze_transactions), transaction_count is the
\* number of input records with that key and is at least 1, total_amount is the
\* sum of their amounts, and the group's list holds exactly those records, in
\* input order; no key occurs twice.
C16_GroupAggregates ==
    op \in {"group_transactions_by_merchant", "group_similar_transactions",
            "analyze_transactions"} =>
        /\ \A g, h \in 1..Len(GroupRows) :
              g # h => GroupRows[g].merchant # GroupRows[h].merchant
        /\ \A g \in 1..Len(GroupRows) :
              /\ GroupRows[g].transaction_count >= 1
              /\ GroupRows[g].transaction_count =
                    Cardinality({i \in 1..Len(txns) : GroupKey(i) = GroupRows[g].merchant})
              /\ Len(GroupRows[g].transactions) = GroupRows[g].transaction_count
              /\ {GroupRows[g].transactions[p] : p \in 1..Len(GroupRows[g].transactions)}
                    = {i \in 1..Len(txns) : GroupKey(i) = GroupRows[g].merchant}
              /\ \A p, q \in 1..Len(GroupRows[g].transactions) :
                    p < q => GroupRows[g].transactions[p] < GroupRows[g].transactions[q]
              /\ GroupRows[g].total_amount =
                    SumSeq([i \in 1..Len(txns) |->
                              IF GroupKey(i) = GroupRows[g].merchant THEN txns[i].amount ELSE 0])

\* C16 witness: group_transactions_by_merchant built a group of two records that
\* are not adjacent in the input, with amounts that differ
C16_InterleavedGroup ==
    /\ op = "group_transactions_by_merchant"
    /\ \E g \in 1..Len(out) :
          /\ out[g].transaction_count = 2
          /\ out[g].transactions = <<1, 3>>
          /\ txns[1].amount # txns[3].amount

(***************************************************************************)
(* Properties of the section grammars (specification Spec)                 *)
(***************************************************************************)
\* the parser the detector selected, "none" when no parser detected the text
Ran == IF ran = <<>> THEN "none" ELSE ran[1]

\* the records the Comerica grammar of header kind h gives for one line read alone
\* under that header
SectionRecords(h, line, year) ==
    IF h = "HdrPaper" THEN ComericaDeposits(<<Marker(h), line>>, year)
    ELSE IF h = "HdrXfer" THEN ComericaTransfers(<<Marker(h), line>>, year)
    ELSE IF h = "HdrWd" THEN ComericaWithdrawals(<<Marker(h), line>>, year)
    ELSE ComericaFees(<<Marker(h), line>>, year)

\* line i of the text stands under the header at line a: every line from a + 1 to
\* i is a transaction line that the grammar of that header matches
UnderComericaHeader(a, i) ==
    /\ a < i
    /\ all_text[a].k \in ComericaHeaders
    /\ \A b \in (a + 1)..i :
          all_text[b].k = "cm" /\ SectionRecords(all_text[a].k, all_text[b], 2024) # <<>>

UnderProsperityHeader(a, i) ==
    /\ a < i
    /\ all_text[a].k \in {"DepHdr", "DebHdr"}
    /\ \A b \in (a + 1)..i : ProsperityLineMatches(all_text[b]) /\ Phrases(all_text[b]) = {}

\* two Comerica records have the same month, day, amount and description (the
\* triple the parser removes duplicates by, but for the year)
SameButYear(r, t) ==
    /\ r.amount = t.amount /\ r.description = t.description
    /\ r.date.mon = t.date.mon /\ r.date.day = t.date.day

\* the returned record at position n was made from line i read under header a
ProsperityRecordOf(n, a, i) ==
    /\ result.transactions[n].raw_line = all_text[i]
    /\ result.transactions[n].amount =
          ProsperitySignedAmount(IF all_text[a].k = "DepHdr" THEN "deposit" ELSE "debit",
                                 LiteralAmount(all_text[i]))

\* C17 as stated: every occurrence of a section header contributes its region:
\* a transaction line standing under any occurrence of a Comerica or Prosperity
\* section header yields its record in the returned list, and the records of two
\* lines under headers of the same Prosperity section type are in document order
\* in the list ProsperityBankParser returns
C17_EveryOccurrenceContributes ==
    Returned =>
        /\ Ran = "ComericaParser" =>
              \A a, i \in 1..Len(all_text) :
                  UnderComericaHeader(a, i) =>
                      \A k \in 1..Len(SectionRecords(all_text[a].k, all_text[i], 2024)) :
                          \E n \in 1..Len(result.transactions) :
                              SameButYear(SectionRecords(all_text[a].k, all_text[i], 2024)[k],
                                          result.transactions[n])
        /\ Ran \in {"ProsperityBankParser", "ProsperityParser"} =>
              \A a, i \in 1..Len(all_text) :
                  UnderProsperityHeader(a, i) =>
                      \E n \in 1..Len(result.transactions) : ProsperityRecordOf(n, a, i)
        /\ Ran = "ProsperityBankParser" =>
              \A a, i, b, j \in 1..Len(all_text) :
                  (/\ UnderProsperityHeader(a, i) /\ UnderProsperityHeader(b, j)
                   /\ all_text[a].k = all_text[b].k /\ i < j)
                  => \E n, m \in 1..Len(result.transactions) :
                        n < m /\ ProsperityRecordOf(n, a, i) /\ ProsperityRecordOf(m, b, j)

\* the header kind of the Comerica section whose grammar gives the type tag
HeaderOfType(tag) ==
    IF tag = "deposit" THEN "HdrPaper"
    ELSE IF tag = "transfer" THEN "HdrXfer"
    ELSE IF tag \in {"overdraft_fee", "returned_item_fee", "service_charge", "other_fee"}
         THEN "HdrFees"
    ELSE "HdrWd"

\* line i lies in a region of header kind h that ends at the nearest boundary: a
\* header of kind h stands before it and only transaction lines lie between
InComericaRegion(h, i) ==
    \E a \in 1..(i - 1) :
        /\ all_text[a].k = h
        /\ \A b \in (a + 1)..i : all_text[b].k = "cm"

\* the date token of record t is the first word of line i
DateTokenOf(t, i) ==
    /\ all_text[i].k = "cm"
    /\ IsDateWord(all_text[i].words[1])
    /\ DateMonth(all_text[i].words[1]) = t.date.mon
    /\ DateDay(all_text[i].words[1]) = t.date.day

\* line i lies in a Prosperity region of the section type that gave record t its
\* sign, and that region ends at the nearest boundary
InProsperityRegion(t, i) ==
    \E a \in 1..(i - 1) :
        /\ all_text[a].k \in {"DepHdr", "DebHdr"}
        /\ \A b \in (a + 1)..i : all_text[b].k = "mdy" /\ Phrases(all_text[b]) = {}
        /\ t.amount = ProsperitySignedAmount(IF all_text[a].k = "DepHdr" THEN "deposit" ELSE "debit",
                                             LiteralAmount(all_text[i]))

\* C18 as stated: a section region ends at the nearest following boundary (section
\* header, stop marker, page break, end of text), so every returned record was
\* read under the grammar and sign rule of the section its line stands in: no
\* header or marker line lies between the header of the record's section type and
\* the line that holds the record's date token
C18_RegionsEndAtNearestBoundary ==
    Returned =>
        /\ Ran = "ComericaParser" =>
              \A n \in 1..Len(result.transactions) :
                  \E i \in 1..Len(all_text) :
                      /\ DateTokenOf(result.transactions[n], i)
                      /\ InComericaRegion(HeaderOfType(result.transactions[n].type), i)
        /\ Ran \in {"ProsperityBankParser", "ProsperityParser"} =>
              \A n \in 1..Len(result.transactions) :
                  \E i \in 1..Len(all_text) :
                      /\ result.transactions[n].raw_line = all_text[i]
                      /\ InProsperityRegion(result.transactions[n], i)

\* C19 as stated: extract_transactions of the selected parser returns a list for
\* every text and never raises, also when a line's date token matches the grammar
\* but is no calendar date
C19_NeverRaises ==
    (pc = "done" /\ ran # <<>>) => result.kind \in {"list", "dict"}

\* the lines of the text that print a statement period
PeriodLines == {i \in 1..Len(all_text) : all_text[i].k = "Period"}
\* the years the document's transactions may carry: the year of the first
\* statement-period header, any current calendar year when there is none
DocumentYears ==
    IF PeriodLines = {} THEN NowYears
    ELSE {all_text[CHOOSE i \in PeriodLines : \A j \in PeriodLines : i <= j].year}
\* the year of the date of the returned record at position n
RecordYear(n) ==
    IF Ran = "ComericaParser" THEN result.transactions[n].date.year
    ELSE result.transactions[n].date[3]

\* C20 as stated: for the formats whose lines supply only month and day (Comerica,
\* Chase, Wells Fargo) every transaction of a document carries one year, the year
\* of the statement-period header, and the current calendar year when the
\* document has no such header
C20_StatementYear ==
    (Returned /\ Ran \in {"ComericaParser", "ChaseParser", "WellsFargoParser"}) =>
        \E y \in DocumentYears :
            \A n \in 1..Len(result.transactions) : RecordYear(n) = y

(***************************************************************************)
(* Determinism, grammar and frame properties                               *)
(***************************************************************************)
\* what the running entry point returns for the selected parser when the clock
\* reads the year now
ReturnOf(now) ==
    IF entry = "cli" THEN CliReturn(extract_transactions(Ran, all_text, now))
    ELSE WebReturn(Ran, extract_transactions(Ran, all_text, now))

\* the selected parser is the first parser of the declared order that detects the text
SelectedByTextAlone ==
    \E j \in 1..Len(DeclaredOrder) :
        /\ DeclaredOrder[j] = Ran
        /\ detect_format(Ran, all_text)
        /\ \A k \in 1..(j - 1) : ~detect_format(DeclaredOrder[k], all_text)

\* C21 as amended: the selected parser depends on the text alone, and so does the
\* returned transaction list, except for a Comerica text without a statement-period
\* header: there every date carries the calendar year read from the clock at the
\* time of the run, and the list is otherwise fixed by the text.
C21_PureButForClockYear ==
    (pc = "done" /\ ran # <<>>) =>
        /\ SelectedByTextAlone
        /\ (Ran # "ComericaParser" \/ PeriodLines # {}) =>
              \A now \in NowYears : result = ReturnOf(now)
        /\ (Ran = "ComericaParser" /\ PeriodLines = {}) =>
              \E now \in NowYears :
                  /\ result = ReturnOf(now)
                  /\ Returned => \A n \in 1..Len(result.transactions) :
                                     result.transactions[n].date.year = now

\* C21 witness: ComericaParser returned records for a text without a
\* statement-period header, dated in the clock's year 2026
C21_ClockYearUsed ==
    /\ Returned /\ Ran = "ComericaParser" /\ PeriodLines = {}
    /\ result.transactions # <<>>
    /\ result.transactions[1].date.year = 2026

\* C21 as stated: the returned transaction list is a function of the text alone:
\* a run at any other time returns the same result
C21_PureFunctionOfText ==
    (pc = "done" /\ ran # <<>>) => \A now \in NowYears : result = ReturnOf(now)

\* the amount the section type of the header at line a fixes for line i: the
\* printed figure without its sign, negative under OTHER DEBITS
SectionAmount(a, i) ==
    IF all_text[a].k = "DebHdr" THEN 0 - all_text[i].cents ELSE all_text[i].cents

\* C22: in the Prosperity grammar the section type alone fixes the sign: every
\* line matched under an OTHER DEBITS header yields the negated printed figure and
\* every line matched under a DEPOSITS/OTHER CREDITS header the printed figure,
\* whether or not the line prints a '-'; and every returned record is such a line.
C22_SectionFixesSign ==
    (Returned /\ Ran \in {"ProsperityBankParser", "ProsperityParser"}) =>
        /\ \A a, i \in 1..Len(all_text) :
              UnderProsperityHeader(a, i) =>
                  \E n \in 1..Len(result.transactions) :
                      /\ result.transactions[n].raw_line = all_text[i]
                      /\ result.transactions[n].amount = SectionAmount(a, i)
        /\ \A n \in 1..Len(result.transactions) :
              \E a, i \in 1..Len(all_text) :
                  /\ UnderProsperityHeader(a, i)
                  /\ result.transactions[n].raw_line = all_text[i]
                  /\ result.transactions[n].amount = SectionAmount(a, i)

\* C22 witness: a debit section held the WALMART line once printed with '-' and
\* once without, and both records came back with amount -45.67
C22_SignedAndUnsignedDebit ==
    /\ Returned /\ Ran = "ProsperityBankParser"
    /\ \E a, i, j \in 1..Len(all_text) :
          /\ all_text[a].k = "DebHdr"
          /\ UnderProsperityHeader(a, i) /\ UnderProsperityHeader(a, j)
          /\ all_text[i] = pWalmartSigned /\ all_text[j] = pWalmart
    /\ \E n, m \in 1..Len(result.transactions) :
          /\ result.transactions[n].raw_line = pWalmartSigned
          /\ result.transactions[m].raw_line = pWalmart
          /\ result.transactions[n].amount = -4567
          /\ result.transactions[m].amount = -4567

\* line i has the form <Mon><day> <amount> <digits> of the deposits grammar
IsDepositLine(i) ==
    /\ all_text[i].k = "cm" /\ Len(all_text[i].words) = 3
    /\ Len(all_text[i].words[1]) \in {4, 5}
    /\ IsUpper(all_text[i].words[1][1])
    /\ IsLower(all_text[i].words[1][2]) /\ IsLower(all_text[i].words[1][3])
    /\ \A c \in 4..Len(all_text[i].words[1]) : IsDigit(all_text[i].words[1][c])
    /\ IsAmountWord(all_text[i].words[2], FALSE)
    /\ all_text[i].words[3] # <<>>
    /\ \A c \in 1..Len(all_text[i].words[3]) : IsDigit(all_text[i].words[3][c])

\* line i stands in the region of the first deposits header of the text
InFirstDepositsRegion(i) ==
    \E a \in 1..(i - 1) :
        /\ all_text[a].k = "HdrPaper"
        /\ \A b \in 1..(a - 1) : all_text[b].k # "HdrPaper"
        /\ \A b \in (a + 1)..i : all_text[b].k = "cm"

\* the record the claim gives for deposit line i in statement year y
DepositRecord(i, y) ==
    [date |-> [mon |-> SubSeq(all_text[i].words[1], 1, 3),
               day |-> SubSeq(all_text[i].words[1], 4, Len(all_text[i].words[1])),
               year |-> y],
     amount |-> DigitsVal(PickIdx(all_text[i].words[2],
                                  {c \in 1..Len(all_text[i].words[2]) :
                                      IsDigit(all_text[i].words[2][c])}, 1)),
     description |-> <<"P","a","p","e","r"," ","D","e","p","o","s","i","t"," ","R","e","f",":">> \o all_text[i].words[3],
     type |-> "deposit"]

\* C23: in the Comerica grammar every line <Mon><day> <amount> <digits> of the
\* deposits section yields a record with date '<Mon> <day>, <statement year>', the
\* amount of the token without its thousands separators, description
\* 'Paper Deposit Ref:<digits>' and type 'deposit'.
C23_ComericaDepositGrammar ==
    (Returned /\ Ran = "ComericaParser") =>
        \E y \in DocumentYears :
            \A i \in 1..Len(all_text) :
                (IsDepositLine(i) /\ InFirstDepositsRegion(i)) =>
                    \E n \in 1..Len(result.transactions) :
                        result.transactions[n] = DepositRecord(i, y)

\* C23 witness: "Apr10 1,000.00 0320146555" in the deposits section of a statement
\* of 2024 came back as Apr 10, 2024, amount 1000.00, type deposit
C23_ScenarioA ==
    /\ Returned /\ Ran = "ComericaParser"
    /\ \E i \in 1..Len(all_text) :
          /\ all_text[i] = cDeposit /\ InFirstDepositsRegion(i)
    /\ \E n \in 1..Len(result.transactions) :
          result.transactions[n] =
              [date |-> [mon |-> <<"A","p","r">>, day |-> <<"1","0">>, year |-> 2024], amount |-> 100000,
               description |-> <<"P","a","p","e","r"," ","D","e","p","o","s","i","t"," ","R","e","f",":","0","3","2","0","1","4","6","5","5","5">>, type |-> "deposit"]

\* every entry of the lists in out is a reference to a record of the input list
RefsIntoInput ==
    IF op = "categorize_transactions"
    THEN \A k \in 1..Len(CategoryNames) : \A p \in 1..Len(out[CategoryNames[k]]) :
             out[CategoryNames[k]][p] \in 1..Len(txns)
    ELSE \A g \in 1..Len(out) : \A p \in 1..Len(out[g].transactions) :
             out[g].transactions[p] \in 1..Len(txns)

\* C24: a call of categorize_transactions, group_similar_transactions or
\* group_transactions_by_merchant leaves the input list unchanged (same length,
\* order and field values), and the category and group lists it returns hold
\* references to the records of that list.
C24_InputUnchanged ==
    [][(op' # op /\ op' \in {"categorize_transactions", "group_similar_transactions",
                             "group_transactions_by_merchant"})
       => (txns' = txns /\ RefsIntoInput')]_vars

\* C24 witness: categorize_transactions ran on a list of three records and placed
\* each of them
C24_ThreePlaced ==
    /\ op = "categorize_transactions" /\ Len(txns) = 3
    /\ \A i \in 1..3 : Cardinality(Placements(i)) = 1

\* record i carries a type tag that categorize_transactions does not map
HasUnmappedTag(i) == txns[i].type # <<>> /\ Lower(txns[i].type) \notin LabelledTags

\* C25: a transaction whose type tag is present but not one of the mapped tags is
\* classified by the sign of its amount alone: positive in deposits, negative in
\* electronic_withdrawals; the keywords of its description are not consulted, so
\* it is never in checks, transfers, atm_debit, fees_services or paper_deposits.
C25_UnmappedTagBySign ==
    op = "categorize_transactions" =>
        \A i \in 1..Len(txns) :
            HasUnmappedTag(i) =>
                /\ txns[i].amount > 0 => OnlyIn(i, "deposits")
                /\ txns[i].amount < 0 => OnlyIn(i, "electronic_withdrawals")
                /\ \A pl \in Placements(i) :
                      CategoryNames[pl[1]] \in {"deposits", "electronic_withdrawals"}

\* C25 witness: a record tagged other_withdrawal with a negative amount and the
\* keywords 'check' and 'fee' in its description is in electronic_withdrawals
C25_OtherWithdrawalWithKeywords ==
    /\ op = "categorize_transactions"
    /\ \E i \in 1..Len(txns) :
          /\ txns[i].type = Tag.other_withdrawal /\ txns[i].amount < 0
          /\ Has(i, <<"c","h","e","c","k">>) /\ Has(i, <<"f","e","e">>)
          /\ OnlyIn(i, "electronic_withdrawals")

\* the records the four Comerica section grammars extract from the text, in
\* extraction order (deposits, transfers, withdrawals, fees), before duplicates
\* are removed, for the statement year the returned records carry
Extracted ==
    ComericaFound(all_text,
                  IF result.transactions = <<>> THEN 2024
                  ELSE result.transactions[1].date.year)

\* C26: when several extracted Comerica records share the (date, amount,
\* description) triple, the record returned for that triple is the first of them
\* in extraction order, so its type tag is that of the earliest section that
\* matched the line; every extracted triple is returned exactly once.
C26_FirstDuplicateKept ==
    (Returned /\ Ran = "ComericaParser") =>
        /\ \A n \in 1..Len(result.transactions) :
              \E k \in 1..Len(Extracted) :
                  /\ Extracted[k] = result.transactions[n]
                  /\ \A j \in 1..(k - 1) :
                        <<Extracted[j].date, Extracted[j].amount, Extracted[j].description>>
                            # <<Extracted[k].date, Extracted[k].amount, Extracted[k].description>>
        /\ \A k \in 1..Len(Extracted) :
              Cardinality({n \in 1..Len(result.transactions) :
                  <<result.transactions[n].date, result.transactions[n].amount,
                    result.transactions[n].description>>
                      = <<Extracted[k].date, Extracted[k].amount, Extracted[k].description>>}) = 1

\* C26 witness: one line was extracted by the withdrawals grammar and again by
\* the fees grammar, and the record returned is the one tagged other_withdrawal
C26_WithdrawalBeforeFee ==
    /\ Returned /\ Ran = "ComericaParser"
    /\ \E j, k \in 1..Len(Extracted) :
          /\ j < k
          /\ Extracted[j].type = "other_withdrawal" /\ Extracted[k].type = "other_fee"
          /\ Extracted[j].date = Extracted[k].date
          /\ Extracted[j].amount = Extracted[k].amount
          /\ Extracted[j].description = Extracted[k].description
          /\ \E n \in 1..Len(result.transactions) : result.transactions[n] = Extracted[j]
          /\ \A n \in 1..Len(result.transactions) : result.transactions[n] # Extracted[k]

\* what the Prosperity implementation of extraction.py returns for the text: the
\* list of the run itself when that implementation was selected
ExtractionList ==
    IF Ran = "ProsperityBankParser" /\ result.kind = "list" THEN result.transactions
    ELSE ProsperityBankParser_extract_transactions(all_text).txns
\* the outcome of the Prosperity implementation of the parsers package for the
\* same text: the outcome of the run itself when that implementation was selected
PackageOutcome ==
    IF Ran = "ProsperityParser"
    THEN [raised |-> result.kind = "raise",
          txns |-> IF result.kind = "dict" THEN result.transactions ELSE <<>>]
    ELSE ProsperityParser_extract_transactions(all_text)
\* the place the record at position j of the extraction.py list takes in a
\* stable ascending sort by calendar date
DateOrdinal(t) == t.date[3] * 10000 + t.date[1] * 100 + t.date[2]
StablePlace(j) ==
    1 + Cardinality({k \in 1..Len(ExtractionList) :
                        \/ DateOrdinal(ExtractionList[k]) < DateOrdinal(ExtractionList[j])
                        \/ /\ DateOrdinal(ExtractionList[k]) = DateOrdinal(ExtractionList[j])
                           /\ k < j})

\* C27 as stated: for every text in the Prosperity format the two Prosperity
\* implementations return the same records, and the list of the parsers package
\* is the stable date-sorted permutation of the list of extraction.py (neither
\* of the two raises).
C27_ProsperityImplementationsAgree ==
    (pc = "done" /\ Ran \in {"ProsperityBankParser", "ProsperityParser"}) =>
        /\ ~PackageOutcome.raised
        /\ Len(PackageOutcome.txns) = Len(ExtractionList)
        /\ \A j \in 1..Len(ExtractionList) :
              PackageOutcome.txns[StablePlace(j)] = ExtractionList[j]
====
